---- MODULE Spec2Model ----
(***************************************************************************)
(* Checkpoint-based task supervision engine of rs-sdk.                     *)
(*                                                                         *)
(*   TaskContext  (sdk/task-context, src/unnamed/part_000)                 *)
(*   TaskManager  (mcp/task-manager, src/unnamed/part_001)                 *)
(*   run_task / continue_task / abort_task tool handlers (src/mcp/server.ts)*)
(*                                                                         *)
(* The program is single-threaded JavaScript.  One step of the model is    *)
(* one synchronous run of code: a tool handler of the server, one          *)
(* statement of a task body, or the continuation of a checkpoint() call    *)
(* whose promise has been resolved.  Promise continuations are microtasks: *)
(* they run before any other handler or timer, which the guard Idle on     *)
(* every other action expresses.                                           *)
(***************************************************************************)
EXTENDS Integers, Sequences, FiniteSets, TLC

\* Bounds of the model.
MaxTasks == 1          \* tasks ever started
MaxCheckpoints == 2    \* checkpoint() calls of one task body
MaxReports == 1        \* reportProgress() and setAction() calls of one task body
MaxTime == 1           \* ticks of the clock Date.now()
MaxWorld == 1          \* last of the world states 0..MaxWorld the SDK reports
PairTasks == 2         \* tasks ever started, where tasks run side by side
PairCheckpoints == 1   \* checkpoint() calls of one task body, likewise

\* progressInterval, the default of the context (part_000:79) and of the
\* registry (part_001:84), in ms; one tick of the clock is as long.
ProgressInterval == 5000

TaskIds == 1..MaxTasks
Undefined == "undefined"
Reasons == <<"A", "B", "C", "D">>           \* reason of a body's k-th checkpoint
Instructions == {Undefined, "bank"}         \* continue_task instructions
AbortArgs == {Undefined, "", "stop"}        \* abort_task reason argument
ActionNames == {"mining"}                   \* setAction(name) arguments
ErrorMessages == {"boom"}                   \* error.message of a raising body
WorldStates == 0..MaxWorld                  \* what sdk.getState() returns
MaxAges == {m * ProgressInterval : m \in 0..MaxTime}  \* cleanup(maxAgeMs) arguments

VARIABLES
    taskCounter,       \* TaskManager.taskCounter
    tasks,             \* TaskManager.tasks: id -> RunningTask
    ctx,               \* the TaskContext of every task ever started
    body,              \* position of every task body and of its harness
    checkpointCalls,   \* per task, the checkpoint() invocations so far
    now,               \* Date.now(), in ms
    world,             \* sdk.getState(): the bot's world state, as far as the
                       \* summary of a diff tells two states apart
    response,          \* what this step answered, if it was a tool handler or
                       \* a registry call (NoResponse for any other step)
    abortedFrom,       \* history: how each task was aborted so far, "paused"
                       \* (while awaiting_feedback) or "not paused"
    differ             \* the last state diff a context was asked for: the
                       \* call, the two snapshots compared and the result

vars == <<taskCounter, tasks, ctx, body, checkpointCalls, now, world, response,
          abortedFrom, differ>>

\* no diff asked for so far
NoDiffer == [op |-> "none"]

Started == 1..taskCounter

----------------------------------------------------------------------------
\* Data

\* CheckpointResult (part_000:18-23)
CheckpointResult(c, ni, a, ar) ==
    [continue |-> c, newInstructions |-> ni, abort |-> a, abortReason |-> ar]

NoResult == CheckpointResult(FALSE, Undefined, FALSE, Undefined)

\* { continue: true }, part_000:196 and 200
ContinueOnly == CheckpointResult(TRUE, Undefined, FALSE, Undefined)

\* RunningTask.pendingCheckpoint (part_001:21-26); resolve is the promise
\* the resolver belongs to: the index of the checkpoint() call awaiting it.
NoPending ==
    [present |-> FALSE, reason |-> Undefined, checkpointCount |-> 0,
     status |-> Undefined, resolve |-> 0]

Terminal(s) == s \in {"completed", "failed", "aborted"}

\* The answer of a tool handler (server.ts:844-849) or of cleanup
Response(text, n) == [text |-> text, cleaned |-> n]

NoResponse == Response("none", 0)

\* TaskProgress (part_000:10-16)
Progress(a, s) == [action |-> a, status |-> s]

----------------------------------------------------------------------------
\* TaskContext (part_000)

\* constructor, part_000:52-88, and setupStateMonitoring, part_000:90-93.
\* onCheckpoint is the handler the options register: "registry" (the
\* TaskManager's, part_001:81-83), "external" (any other) or none; onProgress
\* likewise.
Context(onCheckpointOption, onProgressOption) ==
    [status |-> "running", abortReason |-> Undefined, checkpointCount |-> 0,
     currentAction |-> "initializing", progressReports |-> <<>>,
     stateListener |-> TRUE, unsubscribeCalls |-> 0,
     startState |-> world, lastCheckpointState |-> world,
     lastAutoProgress |-> now,
     onCheckpoint |-> onCheckpointOption, onProgress |-> onProgressOption]

\* createTaskContext as startTask calls it, part_001:76-85
NewContext == Context("registry", "registry")

\* reportProgress, part_000:113-127: the context's own list
reportProgress(c, p) == [c EXCEPT !.progressReports = Append(@, p)]

\* setAction, part_000:133-136
setAction(c, a) ==
    reportProgress([c EXCEPT !.currentAction = a], Progress(a, "starting"))

\* shouldContinue, part_000:206-208
shouldContinue(c) == c.status = "running"

\* complete, part_000:265-273
complete(c) ==
    reportProgress([c EXCEPT !.status = "completed"],
                   Progress(c.currentAction, "completed"))

\* fail, part_000:278-286
fail(c, error) ==
    reportProgress([c EXCEPT !.status = "failed", !.abortReason = error],
                   Progress(c.currentAction, "failed"))

\* Mutant: the unsubscribe handle is called without testing the field.
ctxCleanupUntested(c) ==
    [c EXCEPT !.stateListener = FALSE, !.unsubscribeCalls = @ + 1]

\* cleanup, part_000:291-296; unsubscribeCalls counts the calls of the
\* handle sdk.onStateUpdate returned
ctxCleanup(c) ==
    IF c.stateListener
    THEN [c EXCEPT !.stateListener = FALSE, !.unsubscribeCalls = @ + 1]
    ELSE c

\* Mutant: an abort result is returned without latching the liveness flag.
checkpointResumeNoLatch(c, result) == c

\* checkpoint, part_000:185-193: what the call does with the handler's result
checkpointResume(c, result) ==
    IF result.abort
    THEN [c EXCEPT !.status = "aborted",
                   !.abortReason = IF result.abortReason \in {Undefined, ""}
                                   THEN "Aborted by supervisor"
                                   ELSE result.abortReason]
    ELSE c

----------------------------------------------------------------------------
\* TaskManager (part_001)

\* startTask's onProgress callback, part_001:77-80
onProgress(task, p) ==
    [task EXCEPT !.progressHistory = Append(@, p), !.lastUpdate = now]

\* Mutant: the record is registered as already paused.
NewTaskPaused ==
    [status |-> "awaiting_feedback", lastUpdate |-> now,
     pendingCheckpoint |-> NoPending, progressHistory |-> <<>>]

\* the RunningTask record startTask builds, part_001:62-73
NewTask ==
    [status |-> "running", lastUpdate |-> now, pendingCheckpoint |-> NoPending,
     progressHistory |-> <<>>]

\* A promise resolver called with r: only the first call settles the promise.
Resolve(call, r) ==
    IF call.state = "pending"
    THEN [call EXCEPT !.state = "resolved", !.result = r,
                      !.resolveCalls = @ + 1]
    ELSE [call EXCEPT !.resolveCalls = @ + 1]

\* A checkpoint() call whose continuation is ready to run: the handler's
\* promise is resolved or rejected, or there was no handler to wait for.
Ready(call) == call.state \in {"resolved", "rejected", "nohandler"}

Idle == \A t \in DOMAIN checkpointCalls : \A k \in 1..Len(checkpointCalls[t]) :
            ~Ready(checkpointCalls[t][k])

----------------------------------------------------------------------------
Init ==
    /\ taskCounter = 0
    /\ tasks = <<>>
    /\ ctx = <<>>
    /\ body = <<>>
    /\ checkpointCalls = <<>>
    /\ now = 0
    /\ world = 0
    /\ differ = NoDiffer
    /\ response = NoResponse
    /\ abortedFrom = <<>>

\* Date.now() advances between two runs of code.
Tick ==
    /\ Idle
    /\ now < MaxTime * ProgressInterval
    /\ now' = now + ProgressInterval
    /\ response' = NoResponse
    /\ UNCHANGED <<differ, taskCounter, tasks, ctx, body, checkpointCalls, world,
                   abortedFrom>>

\* Mutant: the listener does not wait for the interval.
autoProgressDueAtOnce(c) ==
    /\ c.stateListener
    /\ c.onProgress # Undefined

\* The state listener of a context, part_000:93-106: is an automatic progress
\* report due at this update?
autoProgressDue(c) ==
    /\ c.stateListener
    /\ c.onProgress # Undefined
    /\ now - c.lastAutoProgress >= ProgressInterval

\* The SDK receives the world state w and calls the listeners the contexts
\* registered (part_000:93-106, with the registry's onProgress, part_001:77-80).
\* The summary of the diff since the last checkpoint is non-empty when w is
\* not the state of the last checkpoint.
\* An update repeats the state the SDK already has or brings the next one.
WorldUpdate(w) ==
    /\ Idle
    /\ world' = w
    /\ ctx' = [t \in DOMAIN ctx |->
                 IF autoProgressDue(ctx[t])
                 THEN [ctx[t] EXCEPT !.lastAutoProgress = now]
                 ELSE ctx[t]]
    /\ tasks' = [t \in DOMAIN tasks |->
                   IF /\ autoProgressDue(ctx[t])
                      /\ ctx[t].onProgress = "registry"
                      /\ ctx[t].lastCheckpointState # world'
                   THEN onProgress(tasks[t],
                                   Progress(ctx[t].currentAction, "in_progress"))
                   ELSE tasks[t]]
    /\ response' = NoResponse
    /\ UNCHANGED <<differ, taskCounter, body, checkpointCalls, now, abortedFrom>>

\* run_task, server.ts:445-459, and TaskManager.startTask, part_001:49-94,
\* while fewer than limit tasks have been started
StartTaskWithin(limit) ==
    /\ Idle
    /\ taskCounter < limit
    /\ LET id == taskCounter + 1 IN
        /\ taskCounter' = id
        /\ tasks' = (id :> NewTask) @@ tasks
        /\ ctx' = (id :> NewContext) @@ ctx
        /\ body' = (id :> [pc |-> "notstarted", stmt |-> 0, outcome |-> "none",
                           lastResult |-> NoResult]) @@ body
        /\ checkpointCalls' = (id :> <<>>) @@ checkpointCalls
        /\ abortedFrom' = (id :> {}) @@ abortedFrom
    /\ response' = Response("started", 0)
    /\ UNCHANGED <<differ, now, world>>

StartTask == StartTaskWithin(MaxTasks)

\* run_task, server.ts:469-471: the harness invokes the task body once.
InvokeBody(t) ==
    /\ Idle
    /\ body[t].pc = "notstarted"
    /\ body' = [body EXCEPT ![t].pc = "exec"]
    /\ response' = NoResponse
    /\ UNCHANGED <<differ, taskCounter, tasks, ctx, checkpointCalls, now, world,
                   abortedFrom>>

\* handleCheckpoint, part_001:106-116, for a task found in the table: k is
\* the promise created, st the TaskStatus snapshot handed in.
handleCheckpoint(task, st, k) ==
    [task EXCEPT !.status = "awaiting_feedback",
                 !.lastUpdate = now,
                 !.pendingCheckpoint =
                     [present |-> TRUE, reason |-> st.currentAction,
                      checkpointCount |-> st.checkpointCount,
                      status |-> st.status, resolve |-> k]]

\* Mutant: the last-checkpoint state is not advanced.
checkpointEnterKeepsState(c) == [c EXCEPT !.checkpointCount = @ + 1]

\* checkpoint, part_000:171-180: the counter and the last-checkpoint state
checkpointEnter(c) ==
    [c EXCEPT !.checkpointCount = @ + 1, !.lastCheckpointState = world]

\* the reports getStatus() shows, part_000:249
ReportsShown == 10

\* Mutant: the first reports are shown, not the last.
firstReports(list) ==
    IF Len(list) <= ReportsShown THEN list ELSE SubSeq(list, 1, ReportsShown)

\* progressReports.slice(-10), part_000:249
lastReports(list) ==
    IF Len(list) <= ReportsShown THEN list
    ELSE SubSeq(list, Len(list) - ReportsShown + 1, Len(list))

\* checkpoint, part_000:171: the counter, before the status is taken
countCheckpoint(c) == [c EXCEPT !.checkpointCount = @ + 1]

\* Mutant: the status is not marked paused.
liveStatus(c) ==
    [status |-> c.status, currentAction |-> c.currentAction,
     checkpointCount |-> c.checkpointCount,
     progressReports |-> lastReports(c.progressReports),
     stateDiff |-> [before |-> c.lastCheckpointState, after |-> world]]

\* Mutant: the status is taken after the last-checkpoint state is advanced.
pausedStatusAfterAdvance(c) ==
    [status |-> "paused", currentAction |-> c.currentAction,
     checkpointCount |-> c.checkpointCount,
     progressReports |-> lastReports(c.progressReports),
     stateDiff |-> [before |-> world, after |-> world]]

\* getStatus, part_000:235-253, as checkpoint marks it (part_000:176-177).
\* stateDiff, the diff since the last checkpoint (part_000:247), is kept as
\* the two snapshots it is computed from.
pausedStatus(c) ==
    [status |-> "paused", currentAction |-> c.currentAction,
     checkpointCount |-> c.checkpointCount,
     progressReports |-> lastReports(c.progressReports),
     stateDiff |-> [before |-> c.lastCheckpointState, after |-> world]]

\* A statement of the body calls ctx.checkpoint(reason), awaiting the result
\* or not (part_000:170-184 and 200, part_001:81-83 and 100-121).
BodyCheckpoint(t, awaited) ==
    /\ Idle
    /\ body[t].pc = "exec"
    /\ ctx[t].checkpointCount < MaxCheckpoints
    /\ LET c == checkpointEnter(ctx[t])
           k == c.checkpointCount
           reason == Reasons[k]
           handler == ctx[t].onCheckpoint
           found == handler = "registry" /\ t \in DOMAIN tasks
           st == pausedStatus(countCheckpoint(ctx[t]))
           call == [reason |-> reason, awaited |-> awaited, at |-> body[t].stmt,
                    state |-> "pending", result |-> NoResult, resolveCalls |-> 0,
                    status |-> st]
       IN
        /\ ctx' = [ctx EXCEPT ![t] = c]
        /\ tasks' = IF found
                    THEN [tasks EXCEPT ![t] = handleCheckpoint(@, st, k)]
                    ELSE tasks
        /\ checkpointCalls' =
             [checkpointCalls EXCEPT ![t] =
                Append(@, IF handler = Undefined
                          THEN [call EXCEPT !.state = "nohandler"]
                          ELSE IF handler = "external" \/ found
                          THEN call
                          ELSE Resolve(call, CheckpointResult(FALSE, Undefined, TRUE,
                                                              "Task not found")))]
        /\ body' = [body EXCEPT ![t].stmt = @ + 1,
                                ![t].pc = IF awaited THEN "await" ELSE "exec"]
    /\ response' = NoResponse
    /\ UNCHANGED <<differ, taskCounter, now, world, abortedFrom>>

\* What the body sees when the checkpoint() call it awaits returns: it goes on
\* with the statement after the call.
bodyResume(b, result) == [b EXCEPT !.pc = "exec", !.lastResult = result]

\* Mutant: a raise of the handler reaches the body as the empty result.
checkpointValueOfHandler(call) == call.result

\* What checkpoint() call returns to the body: the handler's result
\* (part_000:188, 193), or { continue: true } when the handler raised
\* (part_000:194-197) or none is registered (part_000:200).
checkpointValue(call) ==
    IF call.state = "resolved" THEN call.result ELSE ContinueOnly

\* The continuation of checkpoint() call k once its handler's promise is
\* settled, or at once when there is no handler (part_000:182-200).
CheckpointReturns(t, k) ==
    /\ Ready(checkpointCalls[t][k])
    /\ LET call == checkpointCalls[t][k] IN
        /\ ctx' = [ctx EXCEPT ![t] = IF call.state = "resolved"
                                     THEN checkpointResume(@, call.result)
                                     ELSE @]
        /\ checkpointCalls' = [checkpointCalls EXCEPT ![t][k].state = "returned"]
        /\ body' = IF call.awaited
                   THEN [body EXCEPT ![t] = bodyResume(@, checkpointValue(call))]
                   ELSE body
    /\ response' = NoResponse
    /\ UNCHANGED <<differ, taskCounter, tasks, now, world, abortedFrom>>

\* the reports the body itself has made so far
BodyReports(t) == body[t].stmt - ctx[t].checkpointCount

\* ctx.reportProgress({action, message}) in the body (part_000:113-127), for
\* a body of at most limit reports
BodyReportProgressWithin(t, a, limit) ==
    /\ Idle
    /\ body[t].pc = "exec"
    /\ BodyReports(t) < limit
    /\ LET p == Progress(a, "in_progress") IN
        /\ ctx' = [ctx EXCEPT ![t] = reportProgress(@, p)]
        /\ tasks' = IF ctx[t].onProgress = "registry" /\ t \in DOMAIN tasks
                    THEN [tasks EXCEPT ![t] = onProgress(@, p)]
                    ELSE tasks
    /\ body' = [body EXCEPT ![t].stmt = @ + 1]
    /\ response' = NoResponse
    /\ UNCHANGED <<differ, taskCounter, checkpointCalls, now, world, abortedFrom>>

BodyReportProgress(t, a) == BodyReportProgressWithin(t, a, MaxReports)

\* ctx.setAction(name) in the body (part_000:133-136)
BodySetAction(t, a) ==
    /\ Idle
    /\ body[t].pc = "exec"
    /\ BodyReports(t) < MaxReports
    /\ ctx' = [ctx EXCEPT ![t] = setAction(@, a)]
    /\ tasks' = IF ctx[t].onProgress = "registry" /\ t \in DOMAIN tasks
                THEN [tasks EXCEPT ![t] = onProgress(@, Progress(a, "starting"))]
                ELSE tasks
    /\ body' = [body EXCEPT ![t].stmt = @ + 1]
    /\ response' = NoResponse
    /\ UNCHANGED <<differ, taskCounter, checkpointCalls, now, world, abortedFrom>>

\* completeTask, part_001:217-225
completeTask(t) ==
    IF t \in DOMAIN tasks
    THEN /\ tasks' = [tasks EXCEPT ![t] =
                        onProgress([@ EXCEPT !.status = "completed",
                                             !.lastUpdate = now],
                                   Progress(ctx[t].currentAction, "completed"))]
         /\ ctx' = [ctx EXCEPT ![t] = ctxCleanup(complete(@))]
    ELSE UNCHANGED <<tasks, ctx>>

\* failTask, part_001:230-238
failTask(t, error) ==
    IF t \in DOMAIN tasks
    THEN /\ tasks' = [tasks EXCEPT ![t] =
                        onProgress([@ EXCEPT !.status = "failed",
                                             !.lastUpdate = now],
                                   Progress(ctx[t].currentAction, "failed"))]
         /\ ctx' = [ctx EXCEPT ![t] = ctxCleanup(fail(@, error))]
    ELSE UNCHANGED <<tasks, ctx>>

\* The body returns: server.ts:471-473.
BodyReturns(t) ==
    /\ Idle
    /\ body[t].pc = "exec"
    /\ completeTask(t)
    /\ body' = [body EXCEPT ![t].pc = "done", ![t].outcome = "completed"]
    /\ response' = NoResponse
    /\ UNCHANGED <<differ, taskCounter, checkpointCalls, now, world, abortedFrom>>

\* The harness's test of a raise, server.ts:476: a checkpoint pause, not an error
raisedWhilePaused(t) ==
    t \in DOMAIN tasks /\ tasks[t].status = "awaiting_feedback"

\* The body raises: server.ts:474-481.
BodyRaises(t, error) ==
    /\ Idle
    /\ body[t].pc = "exec"
    /\ IF raisedWhilePaused(t)
       THEN /\ body' = [body EXCEPT ![t].pc = "done", ![t].outcome = "paused"]
            /\ UNCHANGED <<tasks, ctx>>
       ELSE /\ failTask(t, error)
            /\ body' = [body EXCEPT ![t].pc = "done", ![t].outcome = "error"]
    /\ response' = NoResponse
    /\ UNCHANGED <<differ, taskCounter, checkpointCalls, now, world, abortedFrom>>

\* Mutant: the pending record is not cleared after its resolver is called.
continueTaskKeepsPending(task, instructions) ==
    [task EXCEPT !.status = "running", !.lastUpdate = now]

\* Mutant: the status is not flipped back to running.
continueTaskKeepsStatus(task, instructions) ==
    [task EXCEPT !.pendingCheckpoint = NoPending, !.lastUpdate = now]

\* continueTask, part_001:136-146, on a task holding a pending checkpoint
continueTask(task, instructions) ==
    [task EXCEPT !.pendingCheckpoint = NoPending,
                 !.status = "running",
                 !.lastUpdate = now]

\* Mutant: the handler tests the pending record, as the registry does, and
\* not the status.
notPausedByRecord(task) == ~task.pendingCheckpoint.present

\* The test continue_task makes before resuming, server.ts:625
notPaused(task) == task.status # "awaiting_feedback"

\* Mutant: an unknown id is answered as a resume.
ContinueTaskUnknownAccepted(t, instructions) ==
    /\ Idle
    /\ t \notin DOMAIN tasks
    /\ response' = Response("continued", 0)
    /\ UNCHANGED <<differ, taskCounter, tasks, ctx, body, checkpointCalls, now, world,
                   abortedFrom>>

\* continue_task, server.ts:612-631 and 717-719, with
\* TaskManager.continueTask, part_001:126-147
ContinueTask(t, instructions) ==
    /\ Idle
    /\ IF t \notin DOMAIN tasks
       THEN /\ response' = Response("error: not found", 0)
            /\ UNCHANGED <<tasks, checkpointCalls>>
       ELSE IF notPaused(tasks[t])
       THEN /\ response' = Response("error: not paused", 0)
            /\ UNCHANGED <<tasks, checkpointCalls>>
       ELSE IF ~tasks[t].pendingCheckpoint.present
       THEN /\ response' = Response("error: not paused at a checkpoint", 0)
            /\ UNCHANGED <<tasks, checkpointCalls>>
       ELSE /\ checkpointCalls' =
                 [checkpointCalls EXCEPT ![t][tasks[t].pendingCheckpoint.resolve] =
                    Resolve(@, CheckpointResult(TRUE, instructions, FALSE, Undefined))]
            /\ tasks' = [tasks EXCEPT ![t] = continueTask(@, instructions)]
            /\ response' = Response("continued", 0)
    /\ UNCHANGED <<differ, taskCounter, ctx, body, now, world, abortedFrom>>

\* the result abortTask resolves a pending checkpoint with, part_001:162-166
abortResult(reason) ==
    CheckpointResult(FALSE, Undefined, TRUE,
                     IF reason \in {Undefined, ""} THEN "Task aborted by user"
                     ELSE reason)

\* abortTask, part_001:158-168: the task record
abortTask(task) ==
    [task EXCEPT !.status = "aborted", !.lastUpdate = now,
                 !.pendingCheckpoint = NoPending]

\* abortTask, part_001:170: the task's context
abortContext(c) == ctxCleanup(c)

\* Mutant: the abort reaches every task of the table.
AbortTaskStopsAll(t, reason) ==
    /\ Idle
    /\ t \in DOMAIN tasks
    /\ checkpointCalls' =
          [u \in DOMAIN checkpointCalls |->
             IF u \in DOMAIN tasks /\ tasks[u].pendingCheckpoint.present
             THEN [checkpointCalls[u] EXCEPT
                      ![tasks[u].pendingCheckpoint.resolve] =
                          Resolve(@, abortResult(reason))]
             ELSE checkpointCalls[u]]
    /\ tasks' = [u \in DOMAIN tasks |-> abortTask(tasks[u])]
    /\ ctx' = [u \in DOMAIN ctx |->
                 IF u \in DOMAIN tasks THEN abortContext(ctx[u]) ELSE ctx[u]]
    /\ abortedFrom' = abortedFrom
    /\ response' = Response("aborted", 0)
    /\ UNCHANGED <<differ, taskCounter, body, now, world>>

\* abort_task, server.ts:783-799, with TaskManager.abortTask, part_001:152-171
AbortTask(t, reason) ==
    /\ Idle
    /\ IF t \notin DOMAIN tasks
       THEN /\ response' = Response("error: not found", 0)
            /\ UNCHANGED <<tasks, ctx, checkpointCalls, abortedFrom>>
       ELSE /\ checkpointCalls' =
                 IF tasks[t].pendingCheckpoint.present
                 THEN [checkpointCalls EXCEPT
                          ![t][tasks[t].pendingCheckpoint.resolve] =
                              Resolve(@, abortResult(reason))]
                 ELSE checkpointCalls
            /\ tasks' = [tasks EXCEPT ![t] = abortTask(@)]
            /\ ctx' = [ctx EXCEPT ![t] = abortContext(@)]
            /\ abortedFrom' =
                 [abortedFrom EXCEPT ![t] =
                    @ \cup {IF tasks[t].status = "awaiting_feedback"
                            THEN "paused" ELSE "not paused"}]
            /\ response' = Response("aborted", 0)
    /\ UNCHANGED <<differ, taskCounter, body, now, world>>

\* Mutant: a task is evicted on its age alone.
evictableByAge(task, maxAgeMs) == now - task.lastUpdate > maxAgeMs

\* cleanup, part_001:248: the test a task is evicted on
evictable(task, maxAgeMs) ==
    /\ now - task.lastUpdate > maxAgeMs
    /\ task.status # "running"
    /\ task.status # "awaiting_feedback"

\* Mutant: the old tasks are counted and their contexts cleaned up, but their
\* entries stay in the table.
CleanupKeepsEntries(maxAgeMs) ==
    /\ Idle
    /\ LET gone == {t \in DOMAIN tasks : evictable(tasks[t], maxAgeMs)} IN
        /\ tasks' = tasks
        /\ ctx' = [t \in DOMAIN ctx |->
                     IF t \in gone THEN ctxCleanup(ctx[t]) ELSE ctx[t]]
        /\ response' = Response("cleaned", Cardinality(gone))
    /\ UNCHANGED <<differ, taskCounter, body, checkpointCalls, now, world, abortedFrom>>

\* TaskManager.cleanup, part_001:243-256
Cleanup(maxAgeMs) ==
    /\ Idle
    /\ LET gone == {t \in DOMAIN tasks : evictable(tasks[t], maxAgeMs)} IN
        /\ tasks' = [t \in DOMAIN tasks \ gone |-> tasks[t]]
        /\ ctx' = [t \in DOMAIN ctx |->
                     IF t \in gone THEN ctxCleanup(ctx[t]) ELSE ctx[t]]
        /\ response' = Response("cleaned", Cardinality(gone))
    /\ UNCHANGED <<differ, taskCounter, body, checkpointCalls, now, world, abortedFrom>>

\* Mutant: the entry carries the resolver of the pending checkpoint.
listEntryWithHandle(id, task) ==
    [id |-> id, status |-> task.status,
     isPaused |-> task.status = "awaiting_feedback",
     resolve |-> task.pendingCheckpoint.resolve]

\* listTasks, part_001:200-209: the entry of one task (botName, description
\* and elapsedMs, which no operation changes or reads, are left out)
listEntry(id, task) ==
    [id |-> id, status |-> task.status,
     isPaused |-> task.status = "awaiting_feedback"]

\* listTasks, part_001:183-212
listTasks == [t \in DOMAIN tasks |-> listEntry(t, tasks[t])]

\* the answer of list_tasks, server.ts:801-824
ListResponse(list) == [text |-> "tasks", cleaned |-> 0, list |-> list]

\* list_tasks, server.ts:801-824, with TaskManager.listTasks, part_001:183-212
ListTasks ==
    /\ Idle
    /\ response' = ListResponse(listTasks)
    /\ UNCHANGED <<differ, taskCounter, tasks, ctx, body, checkpointCalls, now, world,
                   abortedFrom>>

Next ==
    \/ Tick
    \/ \E w \in {v \in WorldStates : v >= world} : WorldUpdate(w)
    \/ StartTask
    \/ \E t \in Started : InvokeBody(t)
    \/ \E t \in Started, aw \in BOOLEAN : BodyCheckpoint(t, aw)
    \/ \E t \in Started : \E k \in 1..Len(checkpointCalls[t]) : CheckpointReturns(t, k)
    \/ \E t \in Started, a \in ActionNames : BodyReportProgress(t, a)
    \/ \E t \in Started, a \in ActionNames : BodySetAction(t, a)
    \/ \E t \in Started : BodyReturns(t)
    \/ \E t \in Started, e \in ErrorMessages : BodyRaises(t, e)
    \/ \E t \in TaskIds, i \in Instructions : ContinueTask(t, i)
    \/ \E t \in TaskIds, r \in AbortArgs : AbortTask(t, r)
    \/ \E m \in MaxAges : Cleanup(m)

Spec == Init /\ [][Next]_vars

----------------------------------------------------------------------------
\* Several tasks side by side: bodies that await their checkpoints, the
\* registry's operations on every id.

NextPair ==
    \/ Tick
    \/ StartTaskWithin(PairTasks)
    \/ \E t \in Started : InvokeBody(t)
    \/ \E t \in Started :
          ctx[t].checkpointCount < PairCheckpoints /\ BodyCheckpoint(t, TRUE)
    \/ \E t \in Started : \E k \in 1..Len(checkpointCalls[t]) : CheckpointReturns(t, k)
    \/ \E t \in Started : BodyReturns(t)
    \/ \E t \in Started, e \in ErrorMessages : BodyRaises(t, e)
    \/ \E t \in 1..PairTasks : ContinueTask(t, "bank")
    \/ \E t \in 1..PairTasks : AbortTask(t, "stop")
    \/ \E m \in MaxAges : Cleanup(m)
    \/ ListTasks

SpecPair == Init /\ [][NextPair]_vars

----------------------------------------------------------------------------
\* A TaskContext used directly, without the registry: createTaskContext
\* (part_000:347-357) with an external checkpoint handler or none, and a
\* body its owner runs.

\* what an external checkpoint handler may resolve its promise with
\* One task whose body awaits its checkpoints, and a controller.
NextLive ==
    \/ StartTask
    \/ \E t \in Started : InvokeBody(t)
    \/ \E t \in Started : BodyCheckpoint(t, TRUE)
    \/ \E t \in Started : \E k \in 1..Len(checkpointCalls[t]) : CheckpointReturns(t, k)
    \/ \E t \in Started : BodyReturns(t)
    \/ \E t \in Started, e \in ErrorMessages : BodyRaises(t, e)
    \/ \E t \in TaskIds, i \in Instructions : ContinueTask(t, i)
    \/ \E t \in TaskIds, r \in AbortArgs : AbortTask(t, r)

\* a step of the body: it calls checkpoint(), returns or raises
BodyStep(t) ==
    \/ BodyCheckpoint(t, TRUE)
    \/ BodyReturns(t)
    \/ \E e \in ErrorMessages : BodyRaises(t, e)

\* the controller answers the pending checkpoint of a task
Answers(t) ==
    /\ t \in DOMAIN tasks
    /\ tasks[t].pendingCheckpoint.present
    /\ \/ \E i \in Instructions : ContinueTask(t, i)
       \/ \E r \in AbortArgs : AbortTask(t, r)

\* The harness invokes the body it built (server.ts:469-471), the body goes on
\* until it ends, a settled promise's continuation runs, and the controller
\* answers every pending checkpoint.
SpecLive ==
    /\ Init
    /\ [][NextLive]_vars
    /\ WF_vars(\E t \in TaskIds : t \in Started /\ InvokeBody(t))
    /\ WF_vars(\E t \in TaskIds : t \in Started /\ BodyStep(t))
    /\ WF_vars(\E t \in TaskIds, k \in 1..MaxCheckpoints :
                    /\ t \in Started
                    /\ k <= Len(checkpointCalls[t])
                    /\ CheckpointReturns(t, k))
    /\ WF_vars(\E t \in TaskIds : t \in Started /\ Answers(t))

HistoryReports == 12      \* reports of the body whose history is followed
HistoryCheckpoints == 1   \* and its checkpoint() calls

\* One task whose body reports more often than getStatus() shows.
NextHistory ==
    \/ Tick
    \/ \E w \in {v \in WorldStates : v >= world} : WorldUpdate(w)
    \/ StartTask
    \/ \E t \in Started : InvokeBody(t)
    \/ \E t \in Started, a \in ActionNames :
          BodyReportProgressWithin(t, a, HistoryReports)
    \/ \E t \in Started, a \in ActionNames : BodySetAction(t, a)
    \/ \E t \in Started :
          ctx[t].checkpointCount < HistoryCheckpoints /\ BodyCheckpoint(t, TRUE)
    \/ \E t \in Started : \E k \in 1..Len(checkpointCalls[t]) : CheckpointReturns(t, k)
    \/ \E t \in Started : BodyReturns(t)
    \/ \E t \in Started, e \in ErrorMessages : BodyRaises(t, e)
    \/ \E t \in TaskIds : ContinueTask(t, "bank")
    \/ \E t \in TaskIds : AbortTask(t, "stop")

SpecHistory == Init /\ [][NextHistory]_vars

ExternalResults ==
    {ContinueOnly,
     CheckpointResult(TRUE, "bank", FALSE, Undefined),
     CheckpointResult(FALSE, Undefined, TRUE, Undefined),
     CheckpointResult(FALSE, Undefined, TRUE, "stop")}

InitDirect ==
    /\ taskCounter = 0
    /\ tasks = <<>>
    /\ now = 0
    /\ world = 0
    /\ \E h \in {Undefined, "external"} : ctx = (1 :> Context(h, Undefined))
    /\ body = (1 :> [pc |-> "exec", stmt |-> 0, outcome |-> "none",
                     lastResult |-> NoResult])
    /\ checkpointCalls = (1 :> <<>>)
    /\ differ = NoDiffer
    /\ response = NoResponse
    /\ abortedFrom = (1 :> {})

\* The external handler's promise for checkpoint() call k is resolved
\* (part_000:184).
ExternalResolves(t, k, result) ==
    /\ Idle
    /\ ctx[t].onCheckpoint = "external"
    /\ checkpointCalls[t][k].state = "pending"
    /\ checkpointCalls' = [checkpointCalls EXCEPT ![t][k] = Resolve(@, result)]
    /\ response' = NoResponse
    /\ UNCHANGED <<differ, taskCounter, tasks, ctx, body, now, world, abortedFrom>>

\* The external handler raises: its promise is rejected (part_000:194).
ExternalRejects(t, k) ==
    /\ Idle
    /\ ctx[t].onCheckpoint = "external"
    /\ checkpointCalls[t][k].state = "pending"
    /\ checkpointCalls' = [checkpointCalls EXCEPT ![t][k].state = "rejected"]
    /\ response' = NoResponse
    /\ UNCHANGED <<differ, taskCounter, tasks, ctx, body, now, world, abortedFrom>>

NextDirect ==
    \/ Tick
    \/ \E w \in {v \in WorldStates : v >= world} : WorldUpdate(w)
    \/ \E t \in DOMAIN ctx, aw \in BOOLEAN : BodyCheckpoint(t, aw)
    \/ \E t \in DOMAIN ctx : \E k \in 1..Len(checkpointCalls[t]) :
          CheckpointReturns(t, k)
    \/ \E t \in DOMAIN ctx : \E k \in 1..Len(checkpointCalls[t]) :
          \E r \in ExternalResults : ExternalResolves(t, k, r)
    \/ \E t \in DOMAIN ctx : \E k \in 1..Len(checkpointCalls[t]) :
          ExternalRejects(t, k)
    \/ \E t \in DOMAIN ctx, a \in ActionNames : BodyReportProgress(t, a)
    \/ \E t \in DOMAIN ctx, a \in ActionNames : BodySetAction(t, a)

SpecDirect == InitDirect /\ [][NextDirect]_vars

----------------------------------------------------------------------------
\* loop (patterns.ts:35-121), run by a body on a context of its own

LoopIterations == 3     \* largest maxIterations option
LoopEvery == 2          \* largest checkpointEvery option

\* what the stop conditions of one iteration find in sdk.getState()
\* (patterns.ts:55-91): the reason of the first that holds, or none (also
\* when the state is null)
NoStop == "none"
StopReasons == {"inventory full", "custom condition"}

\* CheckpointResult values a handler may answer the loop with
LoopResults ==
    {ContinueOnly,
     CheckpointResult(TRUE, "bank", FALSE, Undefined),
     CheckpointResult(FALSE, Undefined, FALSE, Undefined),
     CheckpointResult(FALSE, Undefined, TRUE, "stop"),
     CheckpointResult(TRUE, Undefined, TRUE, "stop")}

\* patterns.ts:51-52, with the options of lines 41-48; ran counts the calls
\* of action so far
NewLoop(mx, every) ==
    [pc |-> "test", i |-> 0, completed |-> 0, stopped |-> "max iterations",
     maxIterations |-> mx, checkpointEvery |-> every, ran |-> 0]

\* Mutant: the iteration starts without asking shouldContinue().
loopTestUncooperative(l, c, stop) ==
    IF l.i < l.maxIterations
    THEN IF stop # NoStop
         THEN [l EXCEPT !.pc = "finished", !.stopped = stop]
         ELSE [l EXCEPT !.pc = "action", !.ran = @ + 1]
    ELSE [l EXCEPT !.pc = "finished"]

\* The head of iteration i: the for condition (patterns.ts:54), the stop
\* conditions (55-91) and the call of action (94).
loopTest(l, c, stop) ==
    IF l.i < l.maxIterations /\ shouldContinue(c)
    THEN IF stop # NoStop
         THEN [l EXCEPT !.pc = "finished", !.stopped = stop]
         ELSE [l EXCEPT !.pc = "action", !.ran = @ + 1]
    ELSE [l EXCEPT !.pc = "finished"]

\* patterns.ts:94-97
loopAfterAction(l, success) ==
    IF success THEN [l EXCEPT !.completed = @ + 1] ELSE l

\* patterns.ts:107
checkpointDue(l) == (l.i + 1) % l.checkpointEvery = 0

\* patterns.ts:109-116 and the i++ of line 54
loopAfterCheckpoint(l, c, feedback, stop) ==
    IF ~feedback.continue
    THEN [l EXCEPT !.pc = "finished", !.stopped = "aborted"]
    ELSE loopTest([l EXCEPT !.i = @ + 1], c, stop)

InLoop(t) == t \in DOMAIN body /\ "loop" \in DOMAIN body[t]

InitLoop == InitDirect

\* The body calls loop(ctx, actionName, action, options): patterns.ts:41-54,
\* up to the first await.
LoopEnter(t, a, mx, every, stop) ==
    /\ Idle
    /\ body[t].pc = "exec"
    /\ ~InLoop(t)
    /\ ctx' = [ctx EXCEPT ![t] = setAction(@, a)]
    /\ body' = [body EXCEPT ![t] =
                  [loop |-> loopTest(NewLoop(mx, every), ctx[t], stop)] @@
                  [@ EXCEPT !.stmt = @ + 1]]
    /\ response' = NoResponse
    /\ UNCHANGED <<differ, taskCounter, tasks, checkpointCalls, now, world,
                   abortedFrom>>

\* await action(i) returns: patterns.ts:94-117, up to the next await (the
\* checkpoint, or the action of the next iteration) or the end of the loop.
LoopActionReturns(t, success, stop) ==
    /\ Idle
    /\ InLoop(t)
    /\ body[t].pc = "exec"
    /\ body[t].loop.pc = "action"
    /\ LET l == loopAfterAction(body[t].loop, success)
           reported == reportProgress(ctx[t],
                                      Progress(ctx[t].currentAction, "in_progress"))
           c == checkpointEnter(reported)
           handler == ctx[t].onCheckpoint
           call == [reason |-> "Progress check", awaited |-> TRUE,
                    at |-> body[t].stmt + 1, state |-> "pending",
                    result |-> NoResult, resolveCalls |-> 0,
                    status |-> pausedStatus(countCheckpoint(reported))]
       IN
        IF checkpointDue(l)
        THEN /\ ctx' = [ctx EXCEPT ![t] = c]
             /\ checkpointCalls' =
                  [checkpointCalls EXCEPT ![t] =
                     Append(@, IF handler = Undefined
                               THEN [call EXCEPT !.state = "nohandler"]
                               ELSE call)]
             /\ body' = [body EXCEPT ![t].stmt = @ + 2, ![t].pc = "await",
                                     ![t].loop = [l EXCEPT !.pc = "checkpoint"]]
        ELSE /\ ctx' = [ctx EXCEPT ![t] = reported]
             /\ body' = [body EXCEPT ![t].stmt = @ + 1,
                                     ![t].loop = loopTest([l EXCEPT !.i = @ + 1],
                                                          reported, stop)]
             /\ UNCHANGED checkpointCalls
    /\ response' = NoResponse
    /\ UNCHANGED <<differ, taskCounter, tasks, now, world, abortedFrom>>

\* The loop's checkpoint() call returns (part_000:182-200) and the loop goes
\* on from patterns.ts:109 to its next await or its end.
LoopCheckpointReturns(t, k, stop) ==
    /\ InLoop(t)
    /\ body[t].loop.pc = "checkpoint"
    /\ Ready(checkpointCalls[t][k])
    /\ LET call == checkpointCalls[t][k]
           c == IF call.state = "resolved"
                THEN checkpointResume(ctx[t], call.result)
                ELSE ctx[t]
           feedback == checkpointValue(call)
       IN
        /\ ctx' = [ctx EXCEPT ![t] = c]
        /\ checkpointCalls' = [checkpointCalls EXCEPT ![t][k].state = "returned"]
        /\ body' = [body EXCEPT ![t] =
                      [bodyResume(@, feedback) EXCEPT
                          !.loop = loopAfterCheckpoint(@, c, feedback, stop)]]
    /\ response' = NoResponse
    /\ UNCHANGED <<differ, taskCounter, tasks, now, world, abortedFrom>>

NextLoop ==
    \/ \E t \in DOMAIN ctx, a \in ActionNames, mx \in 0..LoopIterations,
          every \in 1..LoopEvery, stop \in StopReasons \union {NoStop} :
          LoopEnter(t, a, mx, every, stop)
    \/ \E t \in DOMAIN ctx, success \in BOOLEAN,
          stop \in StopReasons \union {NoStop} :
          LoopActionReturns(t, success, stop)
    \/ \E t \in DOMAIN ctx : \E k \in 1..Len(checkpointCalls[t]) :
          \E stop \in StopReasons \union {NoStop} :
             LoopCheckpointReturns(t, k, stop)
    \/ \E t \in DOMAIN ctx : \E k \in 1..Len(checkpointCalls[t]) :
          \E r \in LoopResults : ExternalResolves(t, k, r)
    \/ \E t \in DOMAIN ctx : \E k \in 1..Len(checkpointCalls[t]) :
          ExternalRejects(t, k)

SpecLoop == InitLoop /\ [][NextLoop]_vars
----------------------------------------------------------------------------
\* The state differ (state-diff.ts)

\* A world snapshot (BotWorldState) is a record with the fields tick,
\* inventory, skills, dialog, nearbyNpcs and, when present, combatEvents,
\* player, interface, shop, gameMessages.  An item is [id, name, count], a
\* skill [name, experience, baseLevel, level], a combat event [tick, type,
\* damage], an NPC [index, name, inCombat], a message [tick, text] with the
\* text a sequence of parts, colour markers among them.

\* sdk.getState() before any state was received
Null == [null |-> TRUE]

\* one line of diff.summary: its template, its number and its name
Line(kind, n, name) == [kind |-> kind, n |-> n, name |-> name]

\* createEmptyDiff, state-diff.ts:61-77
createEmptyDiff(tick) ==
    [tick |-> [before |-> tick, after |-> tick, elapsed |-> 0],
     inventory |-> [gained |-> <<>>, lost |-> <<>>, changed |-> <<>>],
     skills |-> [xpGained |-> <<>>],
     combat |-> [damageTaken |-> 0, damageDealt |-> 0, kills |-> 0,
                 healthChange |-> 0],
     position |-> [moved |-> FALSE, distance |-> 0],
     ui |-> [dialogOpened |-> FALSE, dialogClosed |-> FALSE,
             interfaceOpened |-> FALSE, interfaceClosed |-> FALSE,
             shopOpened |-> FALSE, shopClosed |-> FALSE],
     npcs |-> [appeared |-> <<>>, disappeared |-> <<>>, died |-> <<>>],
     messages |-> <<>>,
     summary |-> <<>>]

\* Map.get on a Map kept as the sequence of its entries in insertion order:
\* the position of the entry whose field key is k, 0 when there is none
mapIndex(m, key, k) ==
    LET I == {i \in 1..Len(m) : m[i][key] = k}
    IN IF I = {} THEN 0 ELSE CHOOSE i \in I : \A j \in I : i <= j

\* Mutant: a later stack of an identity replaces the earlier one.
RECURSIVE groupLastStack(_, _)
groupLastStack(items, m) ==
    IF items = <<>> THEN m
    ELSE LET item == Head(items)
             i == mapIndex(m, "id", item.id)
         IN groupLastStack(Tail(items),
                IF i # 0 THEN [m EXCEPT ![i].count = item.count]
                ELSE Append(m, [name |-> item.name, count |-> item.count,
                                id |-> item.id]))

\* state-diff.ts:91-106, group by item ID and sum counts
RECURSIVE groupInventory(_, _)
groupInventory(items, m) ==
    IF items = <<>> THEN m
    ELSE LET item == Head(items)
             i == mapIndex(m, "id", item.id)
         IN groupInventory(Tail(items),
                IF i # 0 THEN [m EXCEPT ![i].count = @ + item.count]
                ELSE Append(m, [name |-> item.name, count |-> item.count,
                                id |-> item.id]))

\* state-diff.ts:109-118, find gained items
RECURSIVE findGained(_, _, _)
findGained(afterInv, beforeInv, diff) ==
    IF afterInv = <<>> THEN diff
    ELSE LET item == Head(afterInv)
             i == mapIndex(beforeInv, "id", item.id)
         IN findGained(Tail(afterInv), beforeInv,
                IF i = 0
                THEN [diff EXCEPT
                        !.inventory.gained = Append(@, item),
                        !.summary = Append(@, Line("+", item.count, item.name))]
                ELSE IF item.count > beforeInv[i].count
                THEN [diff EXCEPT
                        !.inventory.changed =
                            Append(@, [name |-> item.name, count |-> item.count,
                                       id |-> item.id,
                                       before |-> beforeInv[i].count,
                                       after |-> item.count]),
                        !.summary = Append(@, Line("+", item.count - beforeInv[i].count,
                                                   item.name))]
                ELSE diff)

\* state-diff.ts:121-132, find lost items
RECURSIVE findLost(_, _, _)
findLost(beforeInv, afterInv, diff) ==
    IF beforeInv = <<>> THEN diff
    ELSE LET item == Head(beforeInv)
             i == mapIndex(afterInv, "id", item.id)
         IN findLost(Tail(beforeInv), afterInv,
                IF i = 0
                THEN [diff EXCEPT
                        !.inventory.lost = Append(@, item),
                        !.summary = Append(@, Line("-", item.count, item.name))]
                ELSE IF afterInv[i].count < item.count
                THEN [diff EXCEPT
                        !.inventory.changed =
                            IF mapIndex(@, "id", item.id) = 0
                            THEN Append(@, [name |-> item.name, count |-> item.count,
                                            id |-> item.id,
                                            before |-> item.count,
                                            after |-> afterInv[i].count])
                            ELSE @,
                        !.summary = Append(@, Line("-", item.count - afterInv[i].count,
                                                   item.name))]
                ELSE diff)

\* Mutant: the stacks are compared as they are, without grouping.
inventoryChangesPerStack(before, after, diff) ==
    findLost(before.inventory, after.inventory,
             findGained(after.inventory, before.inventory, diff))

\* state-diff.ts:87-133, inventory changes
inventoryChanges(before, after, diff) ==
    LET beforeInv == groupInventory(before.inventory, <<>>)
        afterInv == groupInventory(after.inventory, <<>>)
    IN findLost(beforeInv, afterInv, findGained(afterInv, beforeInv, diff))

\* beforeSkills.get(name), state-diff.ts:136-139 and 142: the Map holds the
\* last skill of the list that has the name; 0 when there is none
lastIndex(list, key, k) ==
    LET I == {i \in 1..Len(list) : list[i][key] = k}
    IN IF I = {} THEN 0 ELSE CHOOSE i \in I : \A j \in I : i >= j

\* state-diff.ts:141-158, one entry for each skill whose experience grew
RECURSIVE skillChanges(_, _, _)
skillChanges(afterSkills, beforeSkills, diff) ==
    IF afterSkills = <<>> THEN diff
    ELSE LET skill == Head(afterSkills)
             i == lastIndex(beforeSkills, "name", skill.name)
         IN skillChanges(Tail(afterSkills), beforeSkills,
                IF i # 0 /\ skill.experience > beforeSkills[i].experience
                THEN LET xpGain == skill.experience - beforeSkills[i].experience
                         levelUp == skill.baseLevel > beforeSkills[i].baseLevel
                     IN IF levelUp
                        THEN [diff EXCEPT
                                !.skills.xpGained =
                                    Append(@, [name |-> skill.name, xp |-> xpGain,
                                               levelUp |-> TRUE,
                                               newLevel |-> skill.baseLevel]),
                                !.summary = Append(@, Line("LEVEL UP!", skill.baseLevel,
                                                           skill.name))]
                        ELSE [diff EXCEPT
                                !.skills.xpGained =
                                    Append(@, [name |-> skill.name, xp |-> xpGain,
                                               levelUp |-> FALSE]),
                                !.summary = Append(@, Line("XP", xpGain, skill.name))]
                ELSE diff)

\* the level a snapshot without a Hitpoints skill is taken to have
DefaultHitpoints == 10

\* Mutant: the base level of Hitpoints is read.
hitpointsOfBaseLevel(skills) ==
    LET i == mapIndex(skills, "name", "Hitpoints")
    IN IF i = 0 THEN DefaultHitpoints ELSE skills[i].baseLevel

\* skills.find(s => s.name === 'Hitpoints')?.level ?? 10, state-diff.ts:161-162
hitpoints(skills) ==
    LET i == mapIndex(skills, "name", "Hitpoints")
    IN IF i = 0 THEN DefaultHitpoints ELSE skills[i].level

\* Mutant: an event of the before snapshot's own tick counts as new.
isNewOrSameTick(e, before) == e.tick >= before.tick

\* the filter of state-diff.ts:167 and 247
isNew(e, before) == e.tick > before.tick

\* Array.filter with isNew
RECURSIVE newSince(_, _)
newSince(list, before) ==
    IF list = <<>> THEN <<>>
    ELSE IF isNew(Head(list), before)
         THEN <<Head(list)>> \o newSince(Tail(list), before)
         ELSE newSince(Tail(list), before)

\* state-diff.ts:168-176, the sums over the new events
RECURSIVE sumEvents(_, _)
sumEvents(events, combat) ==
    IF events = <<>> THEN combat
    ELSE LET evt == Head(events)
         IN sumEvents(Tail(events),
                IF evt.type = "damage_taken"
                THEN [combat EXCEPT !.damageTaken = @ + evt.damage]
                ELSE IF evt.type = "damage_dealt"
                THEN [combat EXCEPT !.damageDealt = @ + evt.damage]
                ELSE IF evt.type = "kill"
                THEN [combat EXCEPT !.kills = @ + 1]
                ELSE combat)

\* diff.summary.push when the test holds
pushIf(test, summary, line) == IF test THEN Append(summary, line) ELSE summary

\* state-diff.ts:160-187, combat changes
combatChanges(before, after, diff) ==
    LET health == [diff.combat EXCEPT
                     !.healthChange = hitpoints(after.skills) - hitpoints(before.skills)]
        combat == IF "combatEvents" \in DOMAIN after
                  THEN sumEvents(newSince(after.combatEvents, before), health)
                  ELSE health
        s1 == pushIf(combat.damageTaken > 0, diff.summary,
                     Line("Took damage", combat.damageTaken, ""))
        s2 == pushIf(combat.damageDealt > 0, s1,
                     Line("Dealt damage", combat.damageDealt, ""))
        s3 == pushIf(combat.kills > 0, s2, Line("Killed target(s)", combat.kills, ""))
    IN [diff EXCEPT !.combat = combat, !.summary = s3]

\* Math.round(Math.sqrt(q)) for a natural number q: the r with
\* (r - 1/2)^2 <= q < (r + 1/2)^2
roundSqrt(q) ==
    CHOOSE r \in 0..q : (2 * r - 1) * (2 * r - 1) <= 4 * q
                        /\ 4 * q < (2 * r + 1) * (2 * r + 1)

\* state-diff.ts:189-205, position changes; dist > 0 and dist >= 5 are tests
\* on the square of the distance
positionChanges(before, after, diff) ==
    IF "player" \in DOMAIN before /\ "player" \in DOMAIN after
    THEN LET dx == after.player.worldX - before.player.worldX
             dz == after.player.worldZ - before.player.worldZ
             sq == dx * dx + dz * dz
         IN IF sq > 0
            THEN [diff EXCEPT
                    !.position =
                        [moved |-> TRUE,
                         from |-> [x |-> before.player.worldX,
                                   z |-> before.player.worldZ],
                         to |-> [x |-> after.player.worldX, z |-> after.player.worldZ],
                         distance |-> roundSqrt(sq)],
                    !.summary = pushIf(sq >= 25, @, Line("Moved tiles", roundSqrt(sq), ""))]
            ELSE diff
    ELSE diff

\* Mutant: an absent interface or shop counts as open.
isOpenUnlessPresent(s, field) == field \notin DOMAIN s \/ s[field].isOpen

\* s.interface?.isOpen and s.shop?.isOpen made boolean
isOpen(s, field) == field \in DOMAIN s /\ s[field].isOpen

\* state-diff.ts:207-218, UI changes
uiChanges(before, after, diff) ==
    LET ui == [dialogOpened |-> ~before.dialog.isOpen /\ after.dialog.isOpen,
               dialogClosed |-> before.dialog.isOpen /\ ~after.dialog.isOpen,
               interfaceOpened |-> ~isOpen(before, "interface") /\ isOpen(after, "interface"),
               interfaceClosed |-> isOpen(before, "interface") /\ ~isOpen(after, "interface"),
               shopOpened |-> ~isOpen(before, "shop") /\ isOpen(after, "shop"),
               shopClosed |-> isOpen(before, "shop") /\ ~isOpen(after, "shop")]
        s1 == pushIf(ui.dialogOpened, diff.summary, Line("Dialog opened", 0, ""))
        s2 == pushIf(ui.dialogClosed, s1, Line("Dialog closed", 0, ""))
        s3 == pushIf(ui.shopOpened, s2,
                     Line("Shop opened", 0, IF "shop" \in DOMAIN after
                                            THEN after.shop.title ELSE Undefined))
        s4 == pushIf(ui.shopClosed, s3, Line("Shop closed", 0, ""))
    IN [diff EXCEPT !.ui = ui, !.summary = s4]

\* Mutant: NPCs are matched by name.
sameNpcByName(a, b) == a.name = b.name

\* the key of beforeNpcs and afterNpcs, state-diff.ts:221-228
sameNpc(a, b) == a.index = b.index

\* Map.has
hasNpc(m, npc) == \E i \in 1..Len(m) : sameNpc(m[i], npc)

\* Map.set for each NPC of a list, state-diff.ts:221-228
RECURSIVE npcMap(_, _)
npcMap(list, m) ==
    IF list = <<>> THEN m
    ELSE LET npc == Head(list)
             I == {i \in 1..Len(m) : sameNpc(m[i], npc)}
         IN npcMap(Tail(list),
                   IF I = {} THEN Append(m, npc)
                   ELSE [i \in 1..Len(m) |-> IF i \in I THEN npc ELSE m[i]])

\* state-diff.ts:226-231, the NPCs of the after list the before Map lacks
RECURSIVE findAppeared(_, _, _)
findAppeared(list, beforeNpcs, diff) ==
    IF list = <<>> THEN diff
    ELSE LET npc == Head(list)
         IN findAppeared(Tail(list), beforeNpcs,
                IF ~hasNpc(beforeNpcs, npc)
                THEN [diff EXCEPT !.npcs.appeared =
                         Append(@, [name |-> npc.name, index |-> npc.index])]
                ELSE diff)

\* state-diff.ts:233-243, the NPCs of the before Map the after Map lacks
RECURSIVE findDisappeared(_, _, _)
findDisappeared(beforeNpcs, afterNpcs, diff) ==
    IF beforeNpcs = <<>> THEN diff
    ELSE LET npc == Head(beforeNpcs)
             entry == [name |-> npc.name, index |-> npc.index]
         IN findDisappeared(Tail(beforeNpcs), afterNpcs,
                IF ~hasNpc(afterNpcs, npc)
                THEN IF npc.inCombat
                     THEN [diff EXCEPT !.npcs.disappeared = Append(@, entry),
                                       !.npcs.died = Append(@, entry),
                                       !.summary = Append(@, Line("died", 0, npc.name))]
                     ELSE [diff EXCEPT !.npcs.disappeared = Append(@, entry)]
                ELSE diff)

\* state-diff.ts:220-243, NPC changes
npcChanges(before, after, diff) ==
    LET beforeNpcs == npcMap(before.nearbyNpcs, <<>>)
        afterNpcs == npcMap(after.nearbyNpcs, <<>>)
    IN findDisappeared(beforeNpcs, afterNpcs,
                       findAppeared(after.nearbyNpcs, beforeNpcs, diff))

\* the colour markers of a message text, what /@\w+@/g matches
Markers == {"@red@", "@blu@"}

\* m.text.replace(/@\w+@/g, ''), state-diff.ts:248
stripMarkers(text) == SelectSeq(text, LAMBDA part : part \notin Markers)

\* state-diff.ts:245-249, game messages
messageChanges(before, after, diff) ==
    IF "gameMessages" \in DOMAIN after
    THEN LET newMessages == newSince(after.gameMessages, before)
         IN [diff EXCEPT !.messages =
                [i \in 1..Len(newMessages) |-> stripMarkers(newMessages[i].text)]]
    ELSE diff

\* state-diff.ts:80-85
tickChanges(before, after, diff) ==
    [diff EXCEPT !.tick = [before |-> before.tick, after |-> after.tick,
                           elapsed |-> after.tick - before.tick]]

\* computeStateDiff, state-diff.ts:79-252
computeStateDiff(before, after) ==
    LET tick == tickChanges(before, after, createEmptyDiff(before.tick))
        inventory == inventoryChanges(before, after, tick)
        skills == skillChanges(after.skills, before.skills, inventory)
        combat == combatChanges(before, after, skills)
        position == positionChanges(before, after, combat)
        ui == uiChanges(before, after, position)
        npcs == npcChanges(before, after, ui)
    IN messageChanges(before, after, npcs)

\* Mutant: the empty diff, whatever the snapshots.
getStateDiffEmpty(retained, currentState) == createEmptyDiff(0)

\* getStateDiffFromStart and getStateDiffSinceLastCheckpoint, part_000:213-230,
\* for the snapshot the context retains and sdk.getState()
getStateDiff(retained, currentState) ==
    IF retained = Null \/ currentState = Null
    THEN createEmptyDiff(0)
    ELSE computeStateDiff(retained, currentState)

\* --- the snapshots of the differ's specification ---

MaxTick == 2           \* ticks of the snapshots, 1..MaxTick

Ticks == 1..MaxTick

Item(id, name, count) == [id |-> id, name |-> name, count |-> count]
Coins(n) == Item(995, "Coins", n)
Logs(n) == Item(1511, "Logs", n)
ItemIds == {995, 1511}

Inventories ==
    {<<Coins(100), Coins(50)>>, <<Coins(200)>>, <<Coins(150)>>, <<Coins(100)>>,
     <<Coins(100), Logs(1), Coins(100)>>, <<Logs(1), Coins(150)>>, <<Logs(2)>>}

Skill(name, experience, baseLevel, level) ==
    [name |-> name, experience |-> experience, baseLevel |-> baseLevel,
     level |-> level]
SkillNames == {"Attack", "Hitpoints"}

SkillLists ==
    {<<Skill("Attack", 100, 5, 5)>>, <<Skill("Attack", 150, 5, 5)>>,
     <<Skill("Attack", 150, 6, 6)>>, <<Skill("Attack", 100, 6, 6)>>,
     <<Skill("Hitpoints", 1000, 10, 10)>>, <<Skill("Hitpoints", 1000, 10, 7)>>,
     <<Skill("Attack", 100, 5, 5), Skill("Hitpoints", 1200, 11, 11)>>}

Event(tick, type, damage) == [tick |-> tick, type |-> type, damage |-> damage]

EventLists ==
    {<<Event(1, "damage_taken", 3)>>,
     <<Event(1, "damage_dealt", 2), Event(2, "damage_taken", 1)>>,
     <<Event(1, "kill", 0), Event(2, "damage_dealt", 4), Event(2, "kill", 0),
       Event(2, "damage_dealt", 1)>>,
     <<Event(3, "damage_taken", 2), Event(3, "kill", 0)>>}

Player(x, z) == [worldX |-> x, worldZ |-> z]
Players == {Player(1, 0), Player(1, 1), Player(3, 4), Player(2, 4), Player(0, 5)}

Npc(index, name, inCombat) == [index |-> index, name |-> name, inCombat |-> inCombat]
NpcIndices == {1, 2, 3}

NpcLists ==
    {<<Npc(1, "Rat", TRUE)>>, <<Npc(1, "Rat", FALSE)>>, <<Npc(2, "Rat", FALSE)>>,
     <<Npc(1, "Rat", TRUE), Npc(2, "Rat", FALSE)>>,
     <<Npc(2, "Rat", TRUE), Npc(3, "Goblin", TRUE)>>}

Message(tick, text) == [tick |-> tick, text |-> text]

MessageLists ==
    {<<Message(1, <<"Welcome">>)>>,
     <<Message(1, <<"@red@", "Oh dear", "@blu@">>), Message(2, <<"You get some logs">>)>>,
     <<Message(3, <<"@red@">>)>>}

\* the snapshot the others differ from in one section
Base(t) ==
    [tick |-> t, inventory |-> <<>>, skills |-> <<>>, combatEvents |-> <<>>,
     player |-> Player(0, 0), dialog |-> [isOpen |-> FALSE],
     interface |-> [isOpen |-> FALSE],
     shop |-> [isOpen |-> FALSE, title |-> "General Store"],
     nearbyNpcs |-> <<>>, gameMessages |-> <<>>]

OptionalFields == {"combatEvents", "player", "interface", "shop", "gameMessages"}

Without(s, field) == [f \in DOMAIN s \ {field} |-> s[f]]

\* no event and no message of a snapshot is later than the snapshot
Recorded(list, t) == \A i \in 1..Len(list) : list[i].tick <= t

SnapshotsAt(t) ==
    {Base(t)}
    \cup {[Base(t) EXCEPT !.inventory = i] : i \in Inventories}
    \cup {[Base(t) EXCEPT !.skills = s] : s \in SkillLists}
    \cup {[Base(t) EXCEPT !.combatEvents = e] : e \in {l \in EventLists : Recorded(l, t)}}
    \cup {[Base(t) EXCEPT !.player = p] : p \in Players}
    \cup {[Base(t) EXCEPT !.dialog.isOpen = TRUE],
          [Base(t) EXCEPT !.interface.isOpen = TRUE],
          [Base(t) EXCEPT !.shop.isOpen = TRUE]}
    \cup {Without(Base(t), f) : f \in OptionalFields}
    \cup {[Base(t) EXCEPT !.nearbyNpcs = n] : n \in NpcLists}
    \cup {[Base(t) EXCEPT !.gameMessages = m] :
             m \in {l \in MessageLists : Recorded(l, t)}}

Snapshots == UNION {SnapshotsAt(t) : t \in Ticks}

\* a task context made on its own, with a checkpoint handler of its owner's
\* or none, when the SDK has no state yet or has one
InitDiff ==
    /\ taskCounter = 0
    /\ tasks = <<>>
    /\ now = 0
    /\ world \in {Null} \cup Snapshots
    /\ \E h \in {Undefined, "external"} : ctx = (1 :> Context(h, Undefined))
    /\ body = (1 :> [pc |-> "exec", stmt |-> 0, outcome |-> "none",
                     lastResult |-> NoResult])
    /\ checkpointCalls = (1 :> <<>>)
    /\ response = NoResponse
    /\ abortedFrom = (1 :> {})
    /\ differ = NoDiffer

\* the snapshots the SDK can receive next: the tick counter only grows
LaterSnapshots == {s \in Snapshots : world = Null \/ s.tick > world.tick}

\* the diff a statement of the body asks the context for
DifferCall(op, retained) ==
    [op |-> op, before |-> retained, after |-> world,
     diff |-> getStateDiff(retained, world)]

\* A statement of the body calls ctx.getStateDiffFromStart(), part_000:213-219.
GetStateDiffFromStart(t) ==
    /\ Idle
    /\ body[t].pc = "exec"
    /\ differ' = DifferCall("getStateDiffFromStart", ctx[t].startState)
    /\ response' = NoResponse
    /\ UNCHANGED <<taskCounter, tasks, ctx, body, checkpointCalls, now, world,
                   abortedFrom>>

\* A statement of the body calls ctx.getStateDiffSinceLastCheckpoint(),
\* part_000:224-230.
GetStateDiffSinceLastCheckpoint(t) ==
    /\ Idle
    /\ body[t].pc = "exec"
    /\ differ' = DifferCall("getStateDiffSinceLastCheckpoint",
                            ctx[t].lastCheckpointState)
    /\ response' = NoResponse
    /\ UNCHANGED <<taskCounter, tasks, ctx, body, checkpointCalls, now, world,
                   abortedFrom>>

DiffCheckpoints == 1   \* checkpoint() calls of the body that asks for diffs

NextDiff ==
    \/ \E s \in LaterSnapshots : WorldUpdate(s)
    \/ \E t \in DOMAIN ctx :
          ctx[t].checkpointCount < DiffCheckpoints /\ BodyCheckpoint(t, TRUE)
    \/ \E t \in DOMAIN ctx : \E k \in 1..Len(checkpointCalls[t]) :
          CheckpointReturns(t, k)
    \/ \E t \in DOMAIN ctx : \E k \in 1..Len(checkpointCalls[t]) :
          ExternalResolves(t, k, ContinueOnly)
    \/ \E t \in DOMAIN ctx : GetStateDiffFromStart(t)
    \/ \E t \in DOMAIN ctx : GetStateDiffSinceLastCheckpoint(t)

SpecDiff == InitDiff /\ [][NextDiff]_vars
----------------------------------------------------------------------------
\* Claims

Calls(t) == 1..Len(checkpointCalls[t])
FinalReport(p) == p.status \in {"completed", "failed"}
AllAwaited(t) == \A k \in Calls(t) : checkpointCalls[t][k].awaited

\* C1: a task aborted while awaiting_feedback has the final status aborted:
\* in every later state its registry status is aborted and its progress
\* history holds no completed or failed report.  Stated for the bodies that
\* await their checkpoints, the ones abortTask finds suspended, once the
\* harness has handled the body's outcome.
C1_AbortWhilePausedIsFinal ==
    \A t \in DOMAIN tasks :
        (/\ "paused" \in abortedFrom[t]
         /\ AllAwaited(t)
         /\ body[t].pc = "done") =>
            /\ tasks[t].status = "aborted"
            /\ \A i \in 1..Len(tasks[t].progressHistory) :
                   ~FinalReport(tasks[t].progressHistory[i])

\* C2: terminal statuses are absorbing: no step changes a registry status
\* that is completed, failed or aborted.
C2_TerminalAbsorbing ==
    [][\A t \in DOMAIN tasks :
          (Terminal(tasks[t].status) /\ t \in DOMAIN tasks')
              => tasks'[t].status = tasks[t].status]_vars

\* C3: continue_task on a known task whose status is not awaiting_feedback
\* answers the invalid-state error, resolves no checkpoint and leaves the task
\* record (status and pending checkpoint) as it was.
C3_ResumeRejectsWrongState ==
    [][\A t \in DOMAIN tasks : \A i \in Instructions :
          (tasks[t].status # "awaiting_feedback" /\ ContinueTask(t, i))
              => /\ response'.text = "error: not paused"
                 /\ tasks' = tasks
                 /\ checkpointCalls' = checkpointCalls
                 /\ ctx' = ctx]_vars

\* C3 witness: the resume of a completed task that still holds a pending
\* record has been rejected.
C3_Witness ==
    \E t \in DOMAIN tasks :
        /\ response.text = "error: not paused"
        /\ tasks[t].status = "completed"
        /\ tasks[t].pendingCheckpoint.present

\* C4: for a body that awaits each of its checkpoints, the task is paused at
\* checkpoint n only when the results of checkpoints 1..n-1 have all been
\* delivered to the body, the pending record is always that of the newest
\* checkpoint and is still unresolved, and the task is completed only when
\* every checkpoint has been resolved and delivered.
C4_CheckpointsSequential ==
    \A t \in DOMAIN tasks :
        AllAwaited(t) =>
            LET n == Len(checkpointCalls[t])
                pc == tasks[t].pendingCheckpoint
            IN  /\ \A k \in Calls(t) :
                      checkpointCalls[t][k].state # "returned" => k = n
                /\ pc.present =>
                      /\ pc.resolve = n
                      /\ pc.checkpointCount = n
                      /\ checkpointCalls[t][n].state = "pending"
                      /\ body[t].pc = "await"
                /\ tasks[t].status = "awaiting_feedback" => pc.present
                /\ tasks[t].status = "completed" =>
                      \A k \in Calls(t) : checkpointCalls[t][k].state = "returned"

\* C4 witness: a body has awaited two checkpoints, both were continued, and
\* the task completed.
C4_Witness ==
    \E t \in DOMAIN tasks :
        /\ AllAwaited(t)
        /\ Len(checkpointCalls[t]) = 2
        /\ \A k \in Calls(t) : checkpointCalls[t][k].result.continue
        /\ tasks[t].status = "completed"

\* C5: a task holds a pending-checkpoint record exactly when its registry
\* status is awaiting_feedback.
C5_PendingIffAwaiting ==
    \A t \in DOMAIN tasks :
        tasks[t].pendingCheckpoint.present
            <=> tasks[t].status = "awaiting_feedback"

\* C6: a successful continue resolves the pending promise once, with
\* {continue: true, newInstructions: instructions}, clears the record and
\* sets the status to running; the awaiting checkpoint call returns that
\* result to the body, which goes on at the statement after the call and
\* never goes back.
C6_ResolvedByContinue ==
    \A t \in Started : \A k \in Calls(t) :
        LET c == checkpointCalls[t][k] IN
        c.result.continue =>
            /\ c.resolveCalls = 1
            /\ c.result.abort = FALSE
            /\ c.result.abortReason = Undefined
            /\ c.result.newInstructions \in Instructions
            /\ c.state \in {"resolved", "returned"}
            /\ c.state = "resolved" =>
                  /\ t \in DOMAIN tasks
                  /\ tasks[t].status = "running"
                  /\ ~tasks[t].pendingCheckpoint.present
                  /\ response.text = "continued"
                  /\ c.awaited => (body[t].pc = "await" /\ body[t].stmt = c.at + 1)
            /\ (c.state = "returned" /\ c.awaited) =>
                  /\ body[t].pc # "notstarted"
                  /\ body[t].stmt >= c.at + 1
                  /\ body[t].stmt = c.at + 1 =>
                        (body[t].pc # "await" /\ body[t].lastResult = c.result)

C6_ContinueStep ==
    \A t \in DOMAIN tasks : \A i \in Instructions :
        (tasks[t].status = "awaiting_feedback" /\ ContinueTask(t, i)) =>
            LET k == tasks[t].pendingCheckpoint.resolve IN
            /\ checkpointCalls[t][k].state = "pending"
            /\ checkpointCalls'[t][k].state = "resolved"
            /\ checkpointCalls'[t][k].result =
                  [continue |-> TRUE, newInstructions |-> i, abort |-> FALSE,
                   abortReason |-> Undefined]
            /\ \A j \in Calls(t) \ {k} : checkpointCalls'[t][j] = checkpointCalls[t][j]
            /\ tasks'[t].status = "running"
            /\ tasks'[t].pendingCheckpoint = NoPending

C6_ReturnStep ==
    \A t \in Started : \A k \in Calls(t) :
        (CheckpointReturns(t, k) /\ checkpointCalls[t][k].awaited) =>
            /\ body'[t].pc = "exec"
            /\ body'[t].stmt = checkpointCalls[t][k].at + 1
            /\ body'[t].lastResult = checkpointCalls[t][k].result

C6_NoReexecution ==
    \A t \in Started : body'[t].stmt >= body[t].stmt

C6_ContinueResumesAfterCheckpoint ==
    /\ []C6_ResolvedByContinue
    /\ [][C6_ContinueStep]_vars
    /\ [][C6_ReturnStep]_vars
    /\ [][C6_NoReexecution]_vars

\* C6 witness: a body suspended at its second checkpoint was continued with
\* instructions and has the result in hand, at the statement after the call.
C6_Witness ==
    \E t \in Started :
        /\ Len(checkpointCalls[t]) = 2
        /\ checkpointCalls[t][2].awaited
        /\ checkpointCalls[t][2].state = "returned"
        /\ body[t].pc = "exec"
        /\ body[t].lastResult =
              [continue |-> TRUE, newInstructions |-> "bank", abort |-> FALSE,
               abortReason |-> Undefined]
        /\ tasks[t].status = "running"

\* C7: once abortTask has returned for a task, whatever its status was, every
\* shouldContinue() its body evaluates is false.
C7_AbortStopsPolling ==
    \A t \in Started :
        (abortedFrom[t] # {} /\ body[t].pc = "exec" /\ AllAwaited(t))
            => ~shouldContinue(ctx[t])

\* C8: a body suspended at a checkpoint when abortTask is called gets
\* {continue: false, abort: true} with the given reason, or the default one,
\* from that checkpoint call, and shouldContinue() is false from then on.
C8_AbortResult ==
    \A t \in Started : \A k \in Calls(t) :
        LET c == checkpointCalls[t][k] IN
        (c.awaited /\ c.state = "returned" /\ c.result.abort) =>
            /\ c.result.continue = FALSE
            /\ body[t].pc \in {"exec", "await"} => ~shouldContinue(ctx[t])
            /\ (body[t].pc = "exec" /\ body[t].stmt = c.at + 1) =>
                  body[t].lastResult = c.result

C8_AbortStep ==
    \A t \in DOMAIN tasks : \A r \in AbortArgs :
        (/\ AbortTask(t, r)
         /\ tasks[t].pendingCheckpoint.present
         /\ body[t].pc = "await") =>
            LET k == tasks[t].pendingCheckpoint.resolve IN
            /\ checkpointCalls'[t][k].state = "resolved"
            /\ checkpointCalls'[t][k].result =
                  [continue |-> FALSE, newInstructions |-> Undefined,
                   abort |-> TRUE,
                   abortReason |-> IF r = "stop" THEN "stop"
                                   ELSE "Task aborted by user"]

C8_AbortObservedAtCheckpoint ==
    /\ []C8_AbortResult
    /\ [][C8_AbortStep]_vars

\* C8 witness: a body suspended at a checkpoint was aborted with a reason and
\* is executing again with the abort result in hand.
C8_Witness ==
    \E t \in Started :
        /\ "paused" \in abortedFrom[t]
        /\ body[t].pc = "exec"
        /\ body[t].lastResult =
              [continue |-> FALSE, newInstructions |-> Undefined, abort |-> TRUE,
               abortReason |-> "stop"]
        /\ ~shouldContinue(ctx[t])

\* C9: the registry's status and the context's status agree: a context
\* status of completed, failed or aborted equals the registry status, and a
\* context is running only while the registry says running or
\* awaiting_feedback.  Stated for the tasks whose body has been invoked and
\* awaits its checkpoints.
C9_StatusesAgree ==
    \A t \in DOMAIN tasks :
        (body[t].pc # "notstarted" /\ AllAwaited(t)) =>
            /\ Terminal(ctx[t].status) => tasks[t].status = ctx[t].status
            /\ ctx[t].status = "running" =>
                  tasks[t].status \in {"running", "awaiting_feedback"}

\* C10: the context's aborted status is latched: no step changes a context
\* status that is aborted, nor the abort reason recorded with it.  Stated for
\* the bodies that await their checkpoints.
C10_AbortLatched ==
    [][\A t \in Started :
          (ctx[t].status = "aborted" /\ AllAwaited(t)) =>
              /\ ctx'[t].status = "aborted"
              /\ ctx'[t].abortReason = ctx[t].abortReason]_vars

\* C11: a task is not double-completed: its progress history holds at most
\* one final report (completed or failed), and a task that has been in a
\* terminal status does not enter a terminal status a second time.  The
\* second part is stated for the tasks that have been aborted, whose bodies
\* await their checkpoints.
C11_OneFinalReport ==
    \A t \in DOMAIN tasks :
        Cardinality({i \in 1..Len(tasks[t].progressHistory) :
                        FinalReport(tasks[t].progressHistory[i])}) <= 1

C11_EntersTerminalOnce ==
    \A t \in DOMAIN tasks :
        (/\ abortedFrom[t] # {}
         /\ AllAwaited(t)
         /\ ~Terminal(tasks[t].status)
         /\ t \in DOMAIN tasks') => ~Terminal(tasks'[t].status)

C11_NoDoubleCompletion ==
    /\ []C11_OneFinalReport
    /\ [][C11_EntersTerminalOnce]_vars

\* C12: while a task is paused, the reason in its pending-checkpoint record
\* is the reason the body passed to the checkpoint() call that suspended it.
C12_PendingReasonIsCheckpointReason ==
    \A t \in DOMAIN tasks :
        (tasks[t].status = "awaiting_feedback"
            /\ tasks[t].pendingCheckpoint.present
            /\ AllAwaited(t)) =>
                tasks[t].pendingCheckpoint.reason =
                    checkpointCalls[t][tasks[t].pendingCheckpoint.resolve].reason

\* C13: whenever the body raises, the registry status becomes failed and the
\* error message is retained on the task, also when a checkpoint of the body
\* is still open; the open pending-checkpoint record stays unresolved.
C13_RaiseFailsTask ==
    [][\A t \in DOMAIN tasks : \A e \in ErrorMessages :
          BodyRaises(t, e) =>
              /\ tasks'[t].status = "failed"
              /\ ctx'[t].abortReason = e
              /\ tasks'[t].pendingCheckpoint = tasks[t].pendingCheckpoint
              /\ checkpointCalls' = checkpointCalls]_vars

\* C14: cleanup(maxAge) removes exactly the tasks in a terminal status whose
\* last update is more than maxAge ago, leaves every other task as it was
\* (running and awaiting_feedback tasks whatever their age), and returns the
\* number of tasks removed.
C14_CleanupEvictsExactly ==
    [][\A m \in MaxAges :
          Cleanup(m) =>
              LET old == {t \in DOMAIN tasks :
                             /\ Terminal(tasks[t].status)
                             /\ now - tasks[t].lastUpdate > m}
              IN  /\ DOMAIN tasks' = DOMAIN tasks \ old
                  /\ \A t \in DOMAIN tasks' : tasks'[t] = tasks[t]
                  /\ \A t \in DOMAIN tasks :
                        tasks[t].status \in {"running", "awaiting_feedback"}
                            => t \in DOMAIN tasks'
                  /\ response' = Response("cleaned", Cardinality(old))]_vars

\* C14 witness: a cleanup has removed one old terminal task and kept an
\* awaiting_feedback task that is as old.
C14_Witness ==
    \E a \in Started : \E b \in DOMAIN tasks :
        /\ a \notin DOMAIN tasks
        /\ response = Response("cleaned", 1)
        /\ tasks[b].status = "awaiting_feedback"
        /\ now - tasks[b].lastUpdate > 0

\* C15: cleanup is idempotent: after cleanup(maxAge) no task is left that a
\* second cleanup(maxAge) would remove, and a cleanup that finds no such task
\* answers 0 and leaves the table and the contexts as they were.
C15_NothingLeftToEvict ==
    \A m \in MaxAges :
        Cleanup(m) =>
            /\ now' = now
            /\ {t \in DOMAIN tasks' : evictable(tasks'[t], m)} = {}

C15_SecondCleanupNoOp ==
    \A m \in MaxAges :
        (Cleanup(m) /\ {t \in DOMAIN tasks : evictable(tasks[t], m)} = {}) =>
            /\ tasks' = tasks
            /\ ctx' = ctx
            /\ response' = Response("cleaned", 0)

C15_CleanupIdempotent ==
    /\ [][C15_NothingLeftToEvict]_vars
    /\ [][C15_SecondCleanupNoOp]_vars

\* C15 witness: a task has been evicted, and the latest cleanup removed
\* nothing from the table that remained.
C15_Witness ==
    /\ \E a \in Started : a \notin DOMAIN tasks
    /\ response = Response("cleaned", 0)
    /\ DOMAIN tasks # {}

\* C16: continue_task and abort_task with an id that is not in the table
\* (never created, or evicted) answer the not-found error and leave the
\* table, every status and every pending checkpoint unchanged.
C16_UnknownTaskRejected ==
    [][\A t \in (1..PairTasks) \ DOMAIN tasks :
          ((\E i \in Instructions : ContinueTask(t, i))
              \/ (\E r \in AbortArgs : AbortTask(t, r))) =>
                  /\ response'.text = "error: not found"
                  /\ tasks' = tasks
                  /\ ctx' = ctx
                  /\ checkpointCalls' = checkpointCalls]_vars

\* C16 witness: the not-found error was answered while one task had been
\* evicted and another was paused with its pending record.
C16_Witness ==
    /\ response.text = "error: not found"
    /\ \E a \in Started : a \notin DOMAIN tasks
    /\ \E b \in DOMAIN tasks :
          tasks[b].status = "awaiting_feedback" /\ tasks[b].pendingCheckpoint.present

\* C17: when the external checkpoint handler raises, the checkpoint() call
\* returns {continue: true} to the body, which goes on executing at the
\* statement after the call, and the context (its liveness status with it) is
\* left as it was.
C17_HandlerRaiseIsContinue ==
    [][\A t \in DOMAIN ctx : \A k \in Calls(t) :
          (CheckpointReturns(t, k) /\ checkpointCalls[t][k].state = "rejected") =>
              /\ ctx'[t] = ctx[t]
              /\ shouldContinue(ctx[t]) => shouldContinue(ctx'[t])
              /\ checkpointCalls[t][k].awaited =>
                    /\ body'[t].pc = "exec"
                    /\ body'[t].stmt = checkpointCalls[t][k].at + 1
                    /\ body'[t].lastResult =
                          [continue |-> TRUE, newInstructions |-> Undefined,
                           abort |-> FALSE, abortReason |-> Undefined]]_vars

\* C17 witness: a body awaited a checkpoint whose handler raised, and is
\* executing again with {continue: true} in hand and a running context.
C17_Witness ==
    \E t \in DOMAIN ctx : \E k \in Calls(t) :
        /\ ctx[t].onCheckpoint = "external"
        /\ checkpointCalls[t][k].awaited
        /\ checkpointCalls[t][k].state = "returned"
        /\ checkpointCalls[t][k].resolveCalls = 0
        /\ body[t].stmt = checkpointCalls[t][k].at + 1
        /\ body[t].pc = "exec"
        /\ body[t].lastResult.continue
        /\ shouldContinue(ctx[t])

\* C18: on a context without a checkpoint handler, checkpoint() never
\* suspends: no call is ever left waiting, the call increments the counter,
\* advances the last-checkpoint state to the current world state and returns
\* {continue: true} in the next step, and the liveness status stays running.
C18_NeverSuspended ==
    \A t \in DOMAIN ctx :
        ctx[t].onCheckpoint = Undefined =>
            /\ \A k \in Calls(t) : checkpointCalls[t][k].state # "pending"
            /\ ctx[t].checkpointCount = Len(checkpointCalls[t])
            /\ shouldContinue(ctx[t])
            /\ body[t].pc = "await" =>
                  checkpointCalls[t][Len(checkpointCalls[t])].state = "nohandler"

C18_CheckpointStep ==
    \A t \in DOMAIN ctx : \A aw \in BOOLEAN :
        (ctx[t].onCheckpoint = Undefined /\ BodyCheckpoint(t, aw)) =>
            /\ ctx'[t].checkpointCount = ctx[t].checkpointCount + 1
            /\ ctx'[t].lastCheckpointState = world
            /\ ctx'[t].status = "running"
            /\ ~Idle'

C18_ReturnStep ==
    \A t \in DOMAIN ctx : \A k \in Calls(t) :
        (ctx[t].onCheckpoint = Undefined /\ CheckpointReturns(t, k)) =>
            /\ ctx'[t] = ctx[t]
            /\ checkpointCalls[t][k].awaited =>
                  /\ body'[t].pc = "exec"
                  /\ body'[t].lastResult =
                        [continue |-> TRUE, newInstructions |-> Undefined,
                         abort |-> FALSE, abortReason |-> Undefined]

C18_NoHandlerPassThrough ==
    /\ []C18_NeverSuspended
    /\ [][C18_CheckpointStep]_vars
    /\ [][C18_ReturnStep]_vars

\* C18 witness: a context without a handler has passed two checkpoints, the
\* second after the world changed, and its body runs on with {continue: true}.
C18_Witness ==
    \E t \in DOMAIN ctx :
        /\ ctx[t].onCheckpoint = Undefined
        /\ ctx[t].checkpointCount = 2
        /\ ctx[t].startState = 0
        /\ ctx[t].lastCheckpointState = 1
        /\ checkpointCalls[t][2].awaited
        /\ checkpointCalls[t][2].state = "returned"
        /\ body[t].pc = "exec"
        /\ body[t].lastResult.continue
        /\ shouldContinue(ctx[t])

\* C19: an operation on one task (checkpoint rendezvous and its return,
\* completeTask, failTask, continueTask, abortTask) leaves every other task's
\* record (status, pending checkpoint, progress history), context and
\* checkpoint promises unchanged.
C19_OperationOn(t) ==
    \/ \E aw \in BOOLEAN : BodyCheckpoint(t, aw)
    \/ \E k \in Calls(t) : CheckpointReturns(t, k)
    \/ BodyReturns(t)
    \/ \E e \in ErrorMessages : BodyRaises(t, e)
    \/ \E i \in Instructions : ContinueTask(t, i)
    \/ \E r \in AbortArgs : AbortTask(t, r)

C19_NoCrossTaskInterference ==
    [][\A t \in Started :
          C19_OperationOn(t) =>
              \A u \in Started \ {t} :
                  /\ u \in DOMAIN tasks => (u \in DOMAIN tasks' /\ tasks'[u] = tasks[u])
                  /\ u \notin DOMAIN tasks => u \notin DOMAIN tasks'
                  /\ ctx'[u] = ctx[u]
                  /\ checkpointCalls'[u] = checkpointCalls[u]
                  /\ body'[u] = body[u]]_vars

\* C19 witness: one task was aborted while the other one stays paused with
\* its pending record.
C19_Witness ==
    \E a, b \in DOMAIN tasks :
        /\ a # b
        /\ response.text = "aborted"
        /\ tasks[a].status = "aborted"
        /\ tasks[b].status = "awaiting_feedback"
        /\ tasks[b].pendingCheckpoint.present
        /\ shouldContinue(ctx[b])

\* C20: a task that is awaiting_feedback stays so, with the same pending
\* record, in every step that is not a continue or an abort of that task (nor
\* a further checkpoint rendezvous, which enters the status anew), and only a
\* continue takes it back to running.
C20_AwaitingUntilContinueOrAbort ==
    [][\A t \in DOMAIN tasks :
          tasks[t].status = "awaiting_feedback" =>
              /\ (~(\E i \in Instructions : ContinueTask(t, i))
                    /\ ~(\E r \in AbortArgs : AbortTask(t, r))
                    /\ ~(\E aw \in BOOLEAN : BodyCheckpoint(t, aw))) =>
                      /\ t \in DOMAIN tasks'
                      /\ tasks'[t].status = "awaiting_feedback"
                      /\ tasks'[t].pendingCheckpoint = tasks[t].pendingCheckpoint
              /\ (t \in DOMAIN tasks' /\ tasks'[t].status = "running") =>
                      \E i \in Instructions : ContinueTask(t, i)]_vars

\* C21: at most one registered task is mid-invocation: no two tasks have
\* status running and a body that has been invoked and has neither finished
\* nor suspended at a checkpoint.
C21_MidInvocation(t) ==
    /\ tasks[t].status = "running"
    /\ body[t].pc = "exec"

C21_OneTaskMidInvocation ==
    \A a, b \in DOMAIN tasks :
        (C21_MidInvocation(a) /\ C21_MidInvocation(b)) => a = b

\* C22: when startTask returns, the table holds the new task under the
\* returned id, with status running, no pending checkpoint and an empty
\* progress history, its body not yet invoked, and the id is none of the ids
\* given out before, evicted ones included; the other entries are untouched.
C22_RegisteredBeforeInvocation ==
    [][taskCounter' # taskCounter =>
          LET id == taskCounter' IN
          /\ id \notin Started
          /\ id \notin DOMAIN tasks
          /\ DOMAIN tasks' = DOMAIN tasks \cup {id}
          /\ tasks'[id].status = "running"
          /\ tasks'[id].pendingCheckpoint = NoPending
          /\ tasks'[id].progressHistory = <<>>
          /\ body'[id].pc = "notstarted"
          /\ shouldContinue(ctx'[id])
          /\ \A t \in DOMAIN tasks : tasks'[t] = tasks[t]]_vars

\* C22 witness: a second task has been registered after the first one was
\* evicted, under a new id, and its body has not been invoked yet.
C22_Witness ==
    /\ taskCounter = 2
    /\ response.text = "started"
    /\ DOMAIN tasks = {2}
    /\ tasks[2].status = "running"
    /\ body[2].pc = "notstarted"

\* C23: listTasks is a read-only projection: the step changes no task
\* record, table entry, context or checkpoint promise; the list has exactly
\* one entry per task of the table, with the task's current status, the
\* needs-feedback flag set exactly for awaiting_feedback, and no other field
\* (no resolver handle).
C23_ListIsReadOnlyProjection ==
    [][ListTasks =>
          /\ tasks' = tasks
          /\ ctx' = ctx
          /\ checkpointCalls' = checkpointCalls
          /\ body' = body
          /\ DOMAIN response'.list = DOMAIN tasks
          /\ \A t \in DOMAIN tasks :
                LET entry == response'.list[t] IN
                /\ DOMAIN entry = {"id", "status", "isPaused"}
                /\ entry.id = t
                /\ entry.status = tasks[t].status
                /\ entry.isPaused <=> tasks[t].status = "awaiting_feedback"]_vars

\* C23 witness: a list of two tasks, one paused (with a resolver pending) and
\* one not.
C23_Witness ==
    /\ response.text = "tasks"
    /\ DOMAIN response.list = {1, 2}
    /\ \E a, b \in DOMAIN tasks :
          /\ tasks[a].pendingCheckpoint.present
          /\ response.list[a].isPaused
          /\ ~response.list[b].isPaused

\* C24: a world-state update appends an automatic in_progress report to a
\* task's history only if the context is still subscribed, at least the
\* interval has passed since its previous automatic check, and the world
\* differs from the last checkpoint's; a terminal task's subscription is
\* released, a released subscription is never taken up again, and no update
\* changes the record of a task whose subscription is released.
C24_AutoReportStep ==
    \A t \in DOMAIN tasks :
        ((\E w \in WorldStates : WorldUpdate(w)) /\ tasks'[t] # tasks[t]) =>
            /\ ctx[t].stateListener
            /\ now - ctx[t].lastAutoProgress >= ProgressInterval
            /\ ctx[t].lastCheckpointState # world'
            /\ ctx'[t].lastAutoProgress = now
            /\ tasks'[t].progressHistory =
                  Append(tasks[t].progressHistory,
                         [action |-> ctx[t].currentAction, status |-> "in_progress"])
            /\ tasks'[t].status = tasks[t].status

C24_ReleasedForGood ==
    \A t \in DOMAIN ctx : ~ctx[t].stateListener => ~ctx'[t].stateListener

C24_ReleasedWhenTerminal ==
    \A t \in DOMAIN tasks : Terminal(tasks[t].status) => ~ctx[t].stateListener

C24_BackgroundMonitoring ==
    /\ []C24_ReleasedWhenTerminal
    /\ [][C24_AutoReportStep]_vars
    /\ [][C24_ReleasedForGood]_vars

\* C24 witness: a task whose body has made no report itself has an automatic
\* in_progress report in its history, made one interval after its start.
C24_Witness ==
    \E t \in DOMAIN tasks :
        /\ BodyReports(t) = 0
        /\ body[t].pc = "exec"
        /\ Len(tasks[t].progressHistory) = 1
        /\ tasks[t].progressHistory[1].status = "in_progress"
        /\ ctx[t].lastAutoProgress = ProgressInterval
        /\ ctx[t].progressReports = <<>>

\* C25: the context's cleanup() is safe to repeat: whatever the calls
\* (abortTask, completeTask, failTask, the registry's cleanup), the
\* unsubscribe handle is called at most once, and a call on a context already
\* cleaned up changes nothing.
C25_CleanupRepeatable ==
    \A t \in DOMAIN ctx :
        /\ ctx[t].unsubscribeCalls <= 1
        /\ ctx[t].stateListener <=> ctx[t].unsubscribeCalls = 0
        /\ ~ctx[t].stateListener => ctxCleanup(ctx[t]) = ctx[t]
        /\ ctxCleanup(ctxCleanup(ctx[t])) = ctxCleanup(ctx[t])

\* C25 witness: a task was completed, then aborted, then evicted (three
\* cleanup() calls on its context), and the handle was called once.
C25_Witness ==
    \E t \in Started :
        /\ t \notin DOMAIN tasks
        /\ body[t].outcome = "completed"
        /\ abortedFrom[t] # {}
        /\ ctx[t].status = "completed"
        /\ ctx[t].unsubscribeCalls = 1

\* what a sequence of records holds in one field
FieldSet(list, field) == {list[i][field] : i \in 1..Len(list)}

\* a diff that records no change in any section
NoChange(d) ==
    /\ d.summary = <<>>
    /\ d.inventory = [gained |-> <<>>, lost |-> <<>>, changed |-> <<>>]
    /\ d.skills.xpGained = <<>>
    /\ d.combat = [damageTaken |-> 0, damageDealt |-> 0, kills |-> 0,
                   healthChange |-> 0]
    /\ ~d.position.moved /\ d.position.distance = 0
    /\ \A flag \in DOMAIN d.ui : ~d.ui[flag]
    /\ d.npcs = [appeared |-> <<>>, disappeared |-> <<>>, died |-> <<>>]
    /\ d.messages = <<>>

Compared == differ.op # "none" /\ differ.before # Null /\ differ.after # Null

\* C26: getStateDiffFromStart and getStateDiffSinceLastCheckpoint always
\* return a diff: the canonical empty one when the retained snapshot or the
\* live one is null, and otherwise what computeStateDiff gives for the
\* retained snapshot and the live one; the snapshot getStateDiffFromStart
\* compares is the one taken at construction.
C26_DiffQueriesTotal ==
    differ.op # "none" =>
        /\ differ.op = "getStateDiffFromStart" => differ.before = ctx[1].startState
        /\ differ.op = "getStateDiffSinceLastCheckpoint" =>
              (ctx[1].checkpointCount = 0 => differ.before = ctx[1].startState)
        /\ IF differ.before = Null \/ differ.after = Null
           THEN NoChange(differ.diff) /\ differ.diff.tick.elapsed = 0
           ELSE differ.diff = computeStateDiff(differ.before, differ.after)

\* C26 witness: the context was made before the SDK had a state, a state has
\* arrived since, and the diff since the last checkpoint is the empty one.
C26_Witness ==
    /\ differ.op = "getStateDiffSinceLastCheckpoint"
    /\ differ.before = Null
    /\ differ.after \in Snapshots
    /\ differ.after.inventory # <<>>
    /\ NoChange(differ.diff)

\* C27: the diff of a snapshot with itself records nothing: empty summary,
\* elapsed 0, empty inventory, skill, NPC and message lists, combat numbers
\* 0, not moved with distance 0, every UI flag false.
C27_DiffIdentity ==
    (Compared /\ differ.before = differ.after) =>
        /\ NoChange(differ.diff)
        /\ differ.diff.tick.elapsed = 0

\* C27 witness: a snapshot that holds a combat event of its own tick was
\* compared with itself.
C27_Witness ==
    /\ Compared
    /\ differ.before = differ.after
    /\ OptionalFields \subseteq DOMAIN differ.after
    /\ \E i \in 1..Len(differ.after.combatEvents) :
          differ.after.combatEvents[i].tick = differ.before.tick

RECURSIVE C28_Total(_, _)
C28_Total(items, id) ==
    IF items = <<>> THEN 0
    ELSE (IF Head(items).id = id THEN Head(items).count ELSE 0)
         + C28_Total(Tail(items), id)

C28_Name(id) == IF id = 995 THEN "Coins" ELSE "Logs"

C28_Entries(list, id) == {i \in 1..Len(list) : list[i].id = id}

\* C28: the inventory is compared by the totals of each identity: for an
\* identity with stacks in both snapshots and different totals, changed holds
\* one entry with the two totals and the summary one line with their
\* difference; an identity new or gone is in gained or lost with its total;
\* no identity has more than one summary line.
C28_InventoryByTotals ==
    Compared =>
        \A id \in ItemIds :
            LET tb == C28_Total(differ.before.inventory, id)
                ta == C28_Total(differ.after.inventory, id)
                pb == id \in FieldSet(differ.before.inventory, "id")
                pa == id \in FieldSet(differ.after.inventory, "id")
                d == differ.diff
                lines == {i \in 1..Len(d.summary) :
                             /\ d.summary[i].kind \in {"+", "-"}
                             /\ d.summary[i].name = C28_Name(id)}
                delta == IF ta > tb THEN Line("+", ta - tb, C28_Name(id))
                         ELSE Line("-", tb - ta, C28_Name(id))
            IN /\ Cardinality(lines) <= 1
               /\ (pa /\ pb /\ ta # tb) =>
                     /\ \E i \in lines : d.summary[i] = delta
                     /\ Cardinality(C28_Entries(d.inventory.changed, id)) = 1
                     /\ \A i \in C28_Entries(d.inventory.changed, id) :
                           /\ d.inventory.changed[i].before = tb
                           /\ d.inventory.changed[i].after = ta
               /\ (pa /\ ~pb) =>
                     /\ \E i \in lines : d.summary[i] = Line("+", ta, C28_Name(id))
                     /\ \E i \in C28_Entries(d.inventory.gained, id) :
                           d.inventory.gained[i].count = ta
               /\ (pb /\ ~pa) =>
                     /\ \E i \in lines : d.summary[i] = Line("-", tb, C28_Name(id))
                     /\ \E i \in C28_Entries(d.inventory.lost, id) :
                           d.inventory.lost[i].count = tb

\* C28 witness: stacks of 100 and 50 coins before, one of 200 after: changed
\* holds 150 -> 200 and the summary is the one line +50 Coins.
C28_Witness ==
    /\ Compared
    /\ differ.before.inventory = <<Coins(100), Coins(50)>>
    /\ differ.after.inventory = <<Coins(200)>>
    /\ Len(differ.diff.inventory.changed) = 1
    /\ differ.diff.inventory.changed[1].before = 150
    /\ differ.diff.inventory.changed[1].after = 200
    /\ differ.diff.summary = <<Line("+", 50, "Coins")>>

\* C29: for a skill of both snapshots, experience up without a level up gives
\* an entry with levelUp false, and a level up, whatever the experience does,
\* gives an entry with levelUp true and newLevel the level after.
C29_LevelUpWhateverTheXp ==
    Compared =>
        \A name \in FieldSet(differ.before.skills, "name")
                      \cap FieldSet(differ.after.skills, "name") :
            LET b == differ.before.skills[lastIndex(differ.before.skills, "name", name)]
                a == differ.after.skills[lastIndex(differ.after.skills, "name", name)]
                entries == {i \in 1..Len(differ.diff.skills.xpGained) :
                               differ.diff.skills.xpGained[i].name = name}
            IN /\ (a.experience > b.experience /\ a.baseLevel <= b.baseLevel) =>
                     \E i \in entries : ~differ.diff.skills.xpGained[i].levelUp
               /\ a.baseLevel > b.baseLevel =>
                     \E i \in entries :
                        /\ differ.diff.skills.xpGained[i].levelUp
                        /\ differ.diff.skills.xpGained[i].newLevel = a.baseLevel

C30_Indices(list) == FieldSet(list, "index")

\* C30: NPCs are matched by index: appeared holds the indices only the after
\* snapshot has, disappeared those only the before snapshot has, died those
\* of disappeared whose NPC was in combat in the before snapshot, each with
\* the NPC's name; died is within disappeared, and appeared and disappeared
\* share no index.
C30_NpcsByIndex ==
    Compared =>
        LET b == differ.before.nearbyNpcs
            a == differ.after.nearbyNpcs
            n == differ.diff.npcs
            inCombat == {b[i].index : i \in {j \in 1..Len(b) : b[j].inCombat}}
            Named(list, from) ==
                \A i \in 1..Len(list) : \E j \in 1..Len(from) :
                    from[j].index = list[i].index /\ from[j].name = list[i].name
        IN /\ C30_Indices(n.appeared) = C30_Indices(a) \ C30_Indices(b)
           /\ C30_Indices(n.disappeared) = C30_Indices(b) \ C30_Indices(a)
           /\ C30_Indices(n.died) = C30_Indices(n.disappeared) \cap inCombat
           /\ C30_Indices(n.died) \subseteq C30_Indices(n.disappeared)
           /\ C30_Indices(n.appeared) \cap C30_Indices(n.disappeared) = {}
           /\ Named(n.appeared, a) /\ Named(n.disappeared, b) /\ Named(n.died, b)

\* C30 witness: of two rats one is gone, in combat when last seen, while a rat
\* of another index stays and a goblin is new.
C30_Witness ==
    /\ Compared
    /\ differ.before.nearbyNpcs = <<Npc(1, "Rat", TRUE), Npc(2, "Rat", FALSE)>>
    /\ differ.after.nearbyNpcs = <<Npc(2, "Rat", TRUE), Npc(3, "Goblin", TRUE)>>
    /\ C30_Indices(differ.diff.npcs.appeared) = {3}
    /\ C30_Indices(differ.diff.npcs.disappeared) = {1}
    /\ C30_Indices(differ.diff.npcs.died) = {1}

\* a diff whose structured fields record no change
C31_NoStructuredChange(d) ==
    /\ d.inventory = [gained |-> <<>>, lost |-> <<>>, changed |-> <<>>]
    /\ d.skills.xpGained = <<>>
    /\ d.combat = [damageTaken |-> 0, damageDealt |-> 0, kills |-> 0,
                   healthChange |-> 0]
    /\ ~d.position.moved
    /\ \A flag \in DOMAIN d.ui : ~d.ui[flag]
    /\ d.npcs = [appeared |-> <<>>, disappeared |-> <<>>, died |-> <<>>]
    /\ d.messages = <<>>

\* C31: the summary of a diff is empty exactly when the diff records no
\* change in any structured field.
C31_EmptySummaryIffNoChange ==
    Compared => (differ.diff.summary = <<>> <=> C31_NoStructuredChange(differ.diff))

\* C32: with a player in both snapshots, moved holds exactly when x or z
\* differ, the distance field is the Euclidean distance of the two positions
\* (its square is dx^2 + dz^2), and the summary has a Moved line exactly when
\* that distance is at least 5; without a player in one of them, moved is
\* false and the distance 0.
C32_TrueDistance ==
    Compared =>
        LET d == differ.diff
            movedLine == \E i \in 1..Len(d.summary) : d.summary[i].kind = "Moved tiles"
        IN IF "player" \in DOMAIN differ.before /\ "player" \in DOMAIN differ.after
           THEN LET dx == differ.after.player.worldX - differ.before.player.worldX
                    dz == differ.after.player.worldZ - differ.before.player.worldZ
                IN /\ d.position.moved <=> (dx # 0 \/ dz # 0)
                   /\ d.position.distance * d.position.distance = dx * dx + dz * dz
                   /\ movedLine <=> dx * dx + dz * dz >= 25
           ELSE ~d.position.moved /\ d.position.distance = 0 /\ ~movedLine

\* C35: each item identity is in one class by its totals: new (only in
\* gained), gone (only in lost), in both with different totals (once in
\* changed, with the two totals), or in both with equal totals (in no list,
\* no summary line); an identity of neither snapshot is in no list.
C35_InventoryPartition ==
    Compared =>
        \A id \in ItemIds :
            LET tb == C28_Total(differ.before.inventory, id)
                ta == C28_Total(differ.after.inventory, id)
                pb == id \in FieldSet(differ.before.inventory, "id")
                pa == id \in FieldSet(differ.after.inventory, "id")
                inv == differ.diff.inventory
                g == Cardinality(C28_Entries(inv.gained, id))
                l == Cardinality(C28_Entries(inv.lost, id))
                c == Cardinality(C28_Entries(inv.changed, id))
                lines == {i \in 1..Len(differ.diff.summary) :
                             /\ differ.diff.summary[i].kind \in {"+", "-"}
                             /\ differ.diff.summary[i].name = C28_Name(id)}
            IN /\ (pa /\ ~pb) => (g = 1 /\ l = 0 /\ c = 0)
               /\ (pb /\ ~pa) => (g = 0 /\ l = 1 /\ c = 0)
               /\ (pa /\ pb /\ ta # tb) =>
                     /\ g = 0 /\ l = 0 /\ c = 1
                     /\ \A i \in C28_Entries(inv.changed, id) :
                           inv.changed[i].before = tb /\ inv.changed[i].after = ta
               /\ (pa /\ pb /\ ta = tb) => (g = 0 /\ l = 0 /\ c = 0 /\ lines = {})
               /\ (~pa /\ ~pb) => (g = 0 /\ l = 0 /\ c = 0 /\ lines = {})

\* C35 witness: 100 + 50 coins before, 150 coins and a log after: the coins
\* are in no list, the log is gained.
C35_Witness ==
    /\ Compared
    /\ differ.before.inventory = <<Coins(100), Coins(50)>>
    /\ differ.after.inventory = <<Logs(1), Coins(150)>>
    /\ differ.diff.inventory = [gained |-> <<[name |-> "Logs", count |-> 1, id |-> 1511]>>,
                                lost |-> <<>>, changed |-> <<>>]
    /\ differ.diff.summary = <<Line("+", 1, "Logs")>>

RECURSIVE C36_Sum(_, _, _, _)
C36_Sum(events, type, tick, unit) ==
    IF events = <<>> THEN 0
    ELSE (IF Head(events).type = type /\ Head(events).tick > tick
          THEN (IF unit THEN 1 ELSE Head(events).damage) ELSE 0)
         + C36_Sum(Tail(events), type, tick, unit)

C36_Level(skills) ==
    IF \E i \in 1..Len(skills) : skills[i].name = "Hitpoints"
    THEN skills[CHOOSE i \in 1..Len(skills) : skills[i].name = "Hitpoints"].level
    ELSE 10

\* C36: damageTaken, damageDealt and kills are the sums over the after
\* snapshot's combat events of a tick greater than before.tick; messages are
\* the after snapshot's messages of a tick greater than before.tick, in their
\* order, markers removed; healthChange is the Hitpoints level after minus
\* the one before, whatever the events.
C36_StrictlyAfterBefore ==
    Compared =>
        LET d == differ.diff
            events == IF "combatEvents" \in DOMAIN differ.after
                      THEN differ.after.combatEvents ELSE <<>>
            msgs == IF "gameMessages" \in DOMAIN differ.after
                    THEN differ.after.gameMessages ELSE <<>>
            late == SelectSeq(msgs, LAMBDA m : m.tick > differ.before.tick)
            t == differ.before.tick
        IN /\ d.combat.damageTaken = C36_Sum(events, "damage_taken", t, FALSE)
           /\ d.combat.damageDealt = C36_Sum(events, "damage_dealt", t, FALSE)
           /\ d.combat.kills = C36_Sum(events, "kill", t, TRUE)
           /\ d.combat.healthChange =
                 C36_Level(differ.after.skills) - C36_Level(differ.before.skills)
           /\ Len(d.messages) = Len(late)
           /\ \A i \in 1..Len(late) :
                 d.messages[i] = SelectSeq(late[i].text, LAMBDA p : p \notin Markers)

\* C36 witness: the after snapshot holds events of the before snapshot's tick
\* and later ones, and only the later ones are counted.
C36_Witness ==
    /\ Compared
    /\ differ.before.tick = 1
    /\ "combatEvents" \in DOMAIN differ.after
    /\ differ.after.combatEvents =
          <<Event(1, "kill", 0), Event(2, "damage_dealt", 4), Event(2, "kill", 0),
            Event(2, "damage_dealt", 1)>>
    /\ differ.diff.combat = [damageTaken |-> 0, damageDealt |-> 5, kills |-> 1,
                             healthChange |-> 0]

\* a snapshot with its absent optional fields filled in: no events, no
\* messages, interface and shop closed, the player at the origin
C33_Fill(s) ==
    [f \in DOMAIN s \cup OptionalFields |->
        IF f \in DOMAIN s THEN s[f]
        ELSE CASE f = "combatEvents" -> <<>>
               [] f = "gameMessages" -> <<>>
               [] f = "interface" -> [isOpen |-> FALSE]
               [] f = "shop" -> [isOpen |-> FALSE, title |-> "General Store"]
               [] f = "player" -> Player(0, 0)]

C33_Absent(f) == f \notin DOMAIN differ.before \/ f \notin DOMAIN differ.after

\* C33 as stated: an optional field absent from either snapshot leaves the
\* diff field it feeds at its default: combat sums 0, no messages, not moved,
\* interface and shop flags false.
C33_AbsentMeansDefault ==
    Compared =>
        LET d == differ.diff IN
        /\ C33_Absent("combatEvents") =>
              (d.combat.damageTaken = 0 /\ d.combat.damageDealt = 0
               /\ d.combat.kills = 0)
        /\ C33_Absent("gameMessages") => d.messages = <<>>
        /\ C33_Absent("player") => (~d.position.moved /\ d.position.distance = 0)
        /\ C33_Absent("interface") => (~d.ui.interfaceOpened /\ ~d.ui.interfaceClosed)
        /\ C33_Absent("shop") => (~d.ui.shopOpened /\ ~d.ui.shopClosed)

\* C33, amended: computeStateDiff gives a diff whatever optional fields are
\* absent.  Combat events or messages absent from the after snapshot give sums
\* of 0 and no messages; a player absent from either snapshot gives moved
\* false and distance 0; an absent interface or shop is a closed one, so a
\* flag can be set when the other snapshot has it open; events and messages
\* of the before snapshot are not read.  Every other field is what the
\* snapshots with the absent fields filled in give.
C33_AbsentIsClosedOrEmpty ==
    Compared =>
        LET d == differ.diff
            full == computeStateDiff(C33_Fill(differ.before), C33_Fill(differ.after))
            notMoved == SelectSeq(full.summary, LAMBDA l : l.kind # "Moved tiles")
        IN /\ "combatEvents" \notin DOMAIN differ.after =>
                 (d.combat.damageTaken = 0 /\ d.combat.damageDealt = 0
                  /\ d.combat.kills = 0)
           /\ "gameMessages" \notin DOMAIN differ.after => d.messages = <<>>
           /\ "interface" \notin DOMAIN differ.after => ~d.ui.interfaceOpened
           /\ "interface" \notin DOMAIN differ.before => ~d.ui.interfaceClosed
           /\ "shop" \notin DOMAIN differ.after => ~d.ui.shopOpened
           /\ "shop" \notin DOMAIN differ.before => ~d.ui.shopClosed
           /\ IF C33_Absent("player")
              THEN /\ d.position = [moved |-> FALSE, distance |-> 0]
                   /\ d = [full EXCEPT !.position = d.position, !.summary = notMoved]
              ELSE d = full

\* C33 witness: the before snapshot has no interface and the after snapshot
\* an open one: the diff says the interface opened.
C33_Witness ==
    /\ Compared
    /\ "interface" \notin DOMAIN differ.before
    /\ "interface" \in DOMAIN differ.after
    /\ differ.after.interface.isOpen
    /\ differ.diff.ui.interfaceOpened
    /\ ~differ.diff.ui.interfaceClosed

C34_CountAndSnapshot ==
    \A t \in Started \cup DOMAIN ctx :
        /\ ctx[t].checkpointCount = Len(checkpointCalls[t])
        /\ \A k \in Calls(t) :
              /\ checkpointCalls[t][k].status.status = "paused"
              /\ checkpointCalls[t][k].status.checkpointCount = k
        /\ (t \in DOMAIN tasks /\ tasks[t].pendingCheckpoint.present) =>
              tasks[t].pendingCheckpoint.status = "paused"

C34_CheckpointStep ==
    \A t \in Started :
        /\ ctx'[t].checkpointCount # ctx[t].checkpointCount =>
              /\ ctx'[t].checkpointCount = ctx[t].checkpointCount + 1
              /\ Len(checkpointCalls'[t]) = Len(checkpointCalls[t]) + 1
              /\ ctx'[t].status = ctx[t].status
              /\ ctx'[t].lastCheckpointState = world
        /\ (body[t].pc = "await" /\ body'[t].pc = "await") =>
              ctx'[t].status = ctx[t].status
        /\ (body[t].pc = "await" /\ body'[t].pc = "exec"
            /\ ~body'[t].lastResult.abort) =>
              ctx'[t].status = ctx[t].status

\* C34: a checkpoint() call adds one to the counter before the status is
\* taken (the status of call k reports k, and the counter equals the number of
\* calls), hands over a status marked paused, leaves the context's own status
\* as it is for the whole suspension and through a resumption that is not an
\* abort, and sets the last-checkpoint state to the world state at the call.
C34_CheckpointEffects ==
    /\ []C34_CountAndSnapshot
    /\ [][C34_CheckpointStep]_vars

\* C34 witness: the body was continued at its first checkpoint and is
\* suspended at its second one: the status handed over is marked paused and
\* reports 2, the context is running.
C34_Witness ==
    \E t \in DOMAIN tasks :
        /\ body[t].pc = "await"
        /\ Len(checkpointCalls[t]) = 2
        /\ AllAwaited(t)
        /\ checkpointCalls[t][1].state = "returned"
        /\ checkpointCalls[t][1].result.continue
        /\ checkpointCalls[t][2].state = "pending"
        /\ checkpointCalls[t][2].status.status = "paused"
        /\ checkpointCalls[t][2].status.checkpointCount = 2
        /\ tasks[t].pendingCheckpoint.present
        /\ ctx[t].checkpointCount = 2
        /\ shouldContinue(ctx[t])

C38_StatusTakenFirst ==
    \A t \in DOMAIN ctx :
        ctx'[t].checkpointCount # ctx[t].checkpointCount =>
            LET call == checkpointCalls'[t][Len(checkpointCalls'[t])] IN
            /\ call.status.stateDiff =
                  [before |-> ctx[t].lastCheckpointState, after |-> world]
            /\ ctx'[t].lastCheckpointState = world

C38_EmptyAfterwards ==
    \A t \in DOMAIN ctx :
        /\ \A k \in Calls(t) :
              checkpointCalls[t][k].status.stateDiff.before =
                 IF k = 1 THEN ctx[t].startState
                 ELSE checkpointCalls[t][k - 1].status.stateDiff.after
        /\ (Calls(t) # {} /\ world = ctx[t].lastCheckpointState) =>
              /\ checkpointCalls[t][Len(checkpointCalls[t])].status.stateDiff.after = world
              /\ NoChange(getStateDiff(ctx[t].lastCheckpointState, world))

C37_IsPrefix(a, b) == Len(a) <= Len(b) /\ SubSeq(b, 1, Len(a)) = a

C37_AppendOnly ==
    \A t \in Started :
        LET reports == ctx[t].progressReports
            reports2 == ctx'[t].progressReports
            stored == t \in DOMAIN tasks /\ t \in DOMAIN tasks'
            bodyReport == /\ body'[t].stmt = body[t].stmt + 1
                          /\ ctx'[t].checkpointCount = ctx[t].checkpointCount
            ended == body'[t].outcome # body[t].outcome /\ t \in DOMAIN tasks
        IN /\ C37_IsPrefix(reports, reports2)
           /\ Len(reports2) <= Len(reports) + 1
           /\ stored =>
                 /\ C37_IsPrefix(tasks[t].progressHistory, tasks'[t].progressHistory)
                 /\ Len(tasks'[t].progressHistory) <= Len(tasks[t].progressHistory) + 1
           /\ (stored /\ Len(reports2) = Len(reports) + 1) =>
                 tasks'[t].progressHistory =
                    Append(tasks[t].progressHistory, reports2[Len(reports2)])
           /\ (bodyReport \/ ended) => Len(reports2) = Len(reports) + 1

C37_TailSlice ==
    \A t \in Started : \A k \in Calls(t) :
        LET shown == checkpointCalls[t][k].status.progressReports
            n == checkpointCalls[t][k].at - (k - 1)
        IN /\ n <= Len(ctx[t].progressReports)
           /\ Len(shown) = IF n <= 10 THEN n ELSE 10
           /\ \A i \in 1..Len(shown) :
                 shown[i] = ctx[t].progressReports[n - Len(shown) + i]

\* C37: the progress reports are only appended to: every step leaves the
\* context's list and the registry's history as prefixes of the new ones and
\* adds at most one report; reportProgress, setAction, complete and fail add
\* exactly one, whatever the context's status; a report added to the context
\* is added to the end of the registry's history in the same step; and the
\* status getStatus() gives shows the last reports, at most 10, in order.
C37_HistoryAppendOnly ==
    /\ []C37_TailSlice
    /\ [][C37_AppendOnly]_vars

\* C37 witness: the body set an action and reported ten times before its
\* checkpoint, whose status shows the ten reports without the first one; it
\* was aborted there and reported once more, aborted as it is, and the
\* registry's history holds all twelve.
C37_Witness ==
    \E t \in DOMAIN tasks :
        /\ Len(checkpointCalls[t]) = 1
        /\ checkpointCalls[t][1].at = 11
        /\ Len(checkpointCalls[t][1].status.progressReports) = 10
        /\ ctx[t].progressReports[1].status = "starting"
        /\ checkpointCalls[t][1].status.progressReports[1].status = "in_progress"
        /\ ctx[t].status = "aborted"
        /\ body[t].pc = "exec"
        /\ Len(ctx[t].progressReports) = 12
        /\ tasks[t].progressHistory = ctx[t].progressReports

C39_Terminal(t) == t \in DOMAIN tasks /\ Terminal(tasks[t].status)

C39_Awaiting(t) == t \in DOMAIN tasks /\ tasks[t].status = "awaiting_feedback"

C39_EventuallyTerminal ==
    \A t \in TaskIds : (t \in DOMAIN tasks) ~> C39_Terminal(t)

C39_ThenNeverAwaiting ==
    \A t \in TaskIds : [](C39_Terminal(t) => [](~C39_Awaiting(t)))

\* C39: with a body of finitely many steps that awaits its checkpoints and a
\* controller that answers every pending checkpoint, a task reaches a
\* terminal status, and from then on it is never awaiting_feedback.
C39_ProgressUnderResponsiveController ==
    C39_EventuallyTerminal /\ C39_ThenNeverAwaiting

C40_Loop == body[1].loop

\* the calls of action that have returned
C40_Returned == IF C40_Loop.pc = "action" THEN C40_Loop.ran - 1 ELSE C40_Loop.ran

C40_Bounded ==
    InLoop(1) =>
        /\ C40_Loop.ran <= C40_Loop.maxIterations
        /\ C40_Loop.completed <= C40_Returned
        /\ ctx[1].checkpointCount = C40_Returned \div C40_Loop.checkpointEvery
        /\ C40_Loop.pc = "checkpoint" =>
              C40_Returned % C40_Loop.checkpointEvery = 0

C40_Step ==
    (InLoop(1) /\ InLoop(1)') =>
        /\ C40_Loop'.ran > C40_Loop.ran =>
              /\ shouldContinue(ctx[1]')
              /\ C40_Loop'.ran = C40_Loop.ran + 1
        /\ (/\ C40_Loop.pc = "checkpoint"
            /\ C40_Loop'.pc # "checkpoint"
            /\ ~body[1]'.lastResult.continue) =>
              /\ C40_Loop'.pc = "finished"
              /\ C40_Loop'.stopped = "aborted"
              /\ C40_Loop'.ran = C40_Loop.ran
        /\ C40_Loop.pc = "finished" => C40_Loop' = C40_Loop

C40_Enters ==
    (~InLoop(1) /\ InLoop(1)') =>
        (C40_Loop'.ran > 0 => shouldContinue(ctx[1]') /\ C40_Loop'.ran = 1)

\* C40: the loop helper starts an action only after shouldContinue()
\* answered true, calls the action at most maxIterations times, has issued a
\* checkpoint for every checkpointEvery-th returned action and no other,
\* ends with 'aborted' and no further action when a checkpoint's result has
\* continue = false, and counts no more completions than actions returned.
C40_LoopCooperativeAndBounded ==
    []C40_Bounded /\ [][C40_Step /\ C40_Enters]_vars

\* Three iterations were allowed and a checkpoint was due after the second;
\* its result aborted the context but said continue, and the loop ended at
\* the next test of shouldContinue() with two actions run.
C40_Witness ==
    /\ InLoop(1)
    /\ C40_Loop.pc = "finished"
    /\ C40_Loop.stopped = "max iterations"
    /\ C40_Loop.ran = 2
    /\ C40_Loop.maxIterations = 3
    /\ ctx[1].checkpointCount = 1
    /\ ~shouldContinue(ctx[1])

====
